---- MODULE Spec2Model ----
(***************************************************************************)
(* Grounding validation and retry escalation of the summarisation          *)
(* pipeline: Overseer.summarise_with_validation (models/base.py) and       *)
(* LettuceDetectValidator (models/validators/lettucedetect.py).            *)
(*                                                                         *)
(* Conventions.  A Python str is a sequence of one-character strings.      *)
(* An Optional value is None == <<>> or Some(x) == <<x>>.  Scores,         *)
(* confidences and thresholds are fixed-point hundredths (0.90 is 90);     *)
(* the code only compares them.  grounded_pct is the exact fraction        *)
(* <<numerator, denominator>>.                                             *)
(***************************************************************************)
EXTENDS Integers, Sequences, FiniteSets, TLC

\* ------------------------------------------------------------------ bounds
MaxRetriesBound == 2
MaxSummaryLen == 4
MaxSpans == 2
MaxChunks == 3
MaxContextLen == 5
MaxChunkSize == 3
MaxTokens == 30
MaxPapers == 4
MaxSplits == 3

VARIABLES
    entry,             \* which public operation the caller invoked
    pc,                \* position inside that operation
    max_retries,       \* Overseer._max_retries
    guidance,          \* summarise_with_validation's guidance argument
    attempt,           \* loop variable of summarise_with_validation
    current_guidance,  \* local current_guidance
    last_result,       \* local last_result (Optional ValidationResult)
    summary,           \* local summary
    calls,             \* history of the backend calls issued so far
    ret,               \* the returned value, None until the call returns
    error,             \* the exception the call ended with, "" if none
    validator,         \* LettuceDetectValidator's thresholds and chunk_size
    context,           \* validate's context argument
    predictions,       \* the raw span predictions of the span detector
    context_chunks,    \* local context_chunks of validate / _infer_nli
    item_idx,          \* position of `for item in predictions` (1-based)
    span,              \* the coerced _RawSpan of the current item
    spans,             \* local spans: the SpanDetections built so far
    text,              \* _infer_nli's text argument
    chunk_idx,         \* position of `for chunk in context_chunks` (1-based)
    best_label,        \* _infer_nli's best_label
    best_confidence,   \* _infer_nli's best_confidence
    nli_calls,         \* NLI backend calls of the current _infer_nli call
    args,              \* the arguments of a direct call of a pure function
    state,             \* the LoopState a BranchManager works on
    batch_i,           \* generate_from_batch's loop variable i
    all_hypotheses     \* generate_from_batch's all_hypotheses

overseerLocals == << max_retries, guidance, attempt, current_guidance,
                     last_result >>

overseerVars == << overseerLocals, calls >>

nliVars == << text, chunk_idx, best_label, best_confidence, nli_calls >>

generatorVars == << batch_i, all_hypotheses >>

validateVars == << validator, context, predictions, context_chunks, item_idx,
                   span, spans >>

vars == << entry, pc, summary, ret, error, overseerVars, validateVars,
           nliVars, args, state, generatorVars >>

\* ----------------------------------------------------------------- values
None == << >>
Some(x) == << x >>

Str(n) == [i \in 1..n |-> "a"]

Summaries == { Str(n) : n \in 0..MaxSummaryLen }

RECURSIVE GCD(_, _)
GCD(a, b) == IF b = 0 THEN a ELSE GCD(b, a % b)

\* The exact value n/d (d > 0, n >= 0) in lowest terms.
Frac(n, d) == << n \div GCD(n, d), d \div GCD(n, d) >>

FracLT(x, y) == x[1] * y[2] < y[1] * x[2]
FracLE(x, y) == x[1] * y[2] <= y[1] * x[2]

\* a fraction against a threshold in hundredths
FracLTHundredths(x, h) == x[1] * 100 < h * x[2]

\* The concatenation of a sequence of sequences
RECURSIVE Concat(_)
Concat(ss) == IF ss = << >> THEN << >> ELSE Head(ss) \o Concat(Tail(ss))

Max(a, b) == IF a >= b THEN a ELSE b
Min(a, b) == IF a <= b THEN a ELSE b

\* ValidationResult (types.py); raw is an opaque diagnostic payload.
ValidationResult(g, n, b, s) ==
    [grounded_pct |-> g, needs_fact_check |-> n, blocked |-> b, spans |-> s]

\* What a Validator (the protocol the Overseer is built on) may hand back.
ValidatorResults ==
    { ValidationResult(g, TRUE, b, << >>) :
        g \in {Frac(1, 2), Frac(1, 1)}, b \in BOOLEAN }

CallerGuidances == { None, Some("Create a brief summary.") }

strict_guidance ==
    Some("Only include claims supported by the provided data. Prefer omission over speculation. If something is not stated, say it is not stated.")

\* ------------------------------------------------------- Overseer (base.py)
SummariseCall(g, ok, s) ==
    [op |-> "summarise", guidance |-> g, ok |-> ok, summary |-> s,
     result |-> None]

ValidateCall(s, ok, r) ==
    [op |-> "validate", guidance |-> None, ok |-> ok, summary |-> s,
     result |-> r]

\* detect_spans(contexts, question, answer=summary), or the HTTP request
DetectCall(s, ok) ==
    [op |-> "detect_spans", guidance |-> None, ok |-> ok, summary |-> s,
     result |-> None]

NumCalls(op) == Cardinality({ i \in DOMAIN calls : calls[i].op = op })

\* range(self._max_retries + 1) is non-empty
LoopRuns == max_retries + 1 > 0

\* Faulty variant: the loop runs one attempt too many
IsFinalAttempt_OneMore(a) == a = max_retries + 1

\* Faulty variant: the loop gives up one attempt too early
IsFinalAttempt_Early(a) == a >= max_retries - 1

\* if attempt == self._max_retries: break
IsFinalAttempt(a) == a = max_retries

\* Faulty variant: the retry keeps the guidance it had
EscalatedGuidance_Keep(g) == g

\* current_guidance = strict_guidance
EscalatedGuidance(g) == strict_guidance

\* Lines 55-59 and, when the loop body never runs, 70-71.
Start ==
    /\ entry = "overseer"
    /\ pc = "start"
    /\ current_guidance' = guidance
    /\ last_result' = None
    /\ summary' = Str(0)
    /\ attempt' = 0
    /\ IF LoopRuns
         THEN pc' = "summarise" /\ error' = error
         ELSE pc' = "raised" /\ error' = "RuntimeError"
    /\ UNCHANGED << entry, max_retries, guidance, calls, ret, validateVars,
                    nliVars, args, state, generatorVars >>

\* Line 60: summary = await base.summarise(data, guidance=current_guidance)
Summarise ==
    /\ entry = "overseer"
    /\ pc = "summarise"
    /\ \E s \in Summaries :
         /\ summary' = s
         /\ calls' = Append(calls, SummariseCall(current_guidance, TRUE, s))
    /\ pc' = "validate"
    /\ UNCHANGED << entry, max_retries, guidance, attempt, current_guidance,
                    last_result, ret, error, validateVars, nliVars, args, state, generatorVars >>

\* Line 60 when the summarizer backend raises: nothing catches it.
SummariseFails ==
    /\ entry = "overseer"
    /\ pc = "summarise"
    /\ calls' = Append(calls, SummariseCall(current_guidance, FALSE, Str(0)))
    /\ pc' = "raised"
    /\ error' = "SummarizerError"
    /\ UNCHANGED << entry, max_retries, guidance, attempt, current_guidance,
                    last_result, summary, ret, validateVars, nliVars, args, state, generatorVars >>

\* Lines 64-68 and 70-72: what follows a validation result r of attempt a.
AfterValidate(r) ==
    IF ~ r.blocked
      THEN /\ pc' = "returned"
           /\ ret' = Some(<< summary, r >>)
           /\ UNCHANGED << attempt, current_guidance >>
      ELSE IF IsFinalAttempt(attempt)
        THEN /\ pc' = "returned"
             /\ ret' = Some(<< summary, r >>)
             /\ UNCHANGED << attempt, current_guidance >>
        ELSE /\ pc' = "summarise"
             /\ current_guidance' = EscalatedGuidance(current_guidance)
             /\ attempt' = attempt + 1
             /\ UNCHANGED ret

\* Lines 61-68: last_result = await self.validate(summary, context, question)
Validate ==
    /\ entry = "overseer"
    /\ pc = "validate"
    /\ \E r \in ValidatorResults :
         /\ last_result' = Some(r)
         /\ calls' = Append(calls, ValidateCall(summary, TRUE, Some(r)))
         /\ AfterValidate(r)
    /\ UNCHANGED << entry, max_retries, guidance, summary, error,
                    validateVars, nliVars, args, state, generatorVars >>

\* Faulty variant: a failed validate call is swallowed and the attempt repeated
ValidateFails_Retry ==
    /\ entry = "overseer"
    /\ pc = "validate"
    /\ attempt < max_retries
    /\ calls' = Append(calls, ValidateCall(summary, FALSE, None))
    /\ pc' = "summarise"
    /\ attempt' = attempt + 1
    /\ UNCHANGED << entry, max_retries, guidance, current_guidance,
                    last_result, summary, ret, error, validateVars, nliVars,
                    args, state, generatorVars >>

\* Line 61 when the validator raises: nothing catches it.
ValidateFails ==
    /\ entry = "overseer"
    /\ pc = "validate"
    /\ calls' = Append(calls, ValidateCall(summary, FALSE, None))
    /\ pc' = "raised"
    /\ error' = "ValidatorError"
    /\ UNCHANGED << entry, max_retries, guidance, attempt, current_guidance,
                    last_result, summary, ret, validateVars, nliVars, args, state, generatorVars >>

\* ------------------------------------- grounding math (lettucedetect.py)
Labels == {"ENTAILMENT", "NEUTRAL", "CONTRADICTION"}

\* SpanDetection (types.py)
SpanDetection(t, s, e, h, l, c, sev) ==
    [text |-> t, start |-> s, end |-> e, hallucination_score |-> h,
     label |-> l, confidence |-> c, severity |-> sev]

\* _severity_from_label
SeverityFromLabel(label) ==
    IF label = "CONTRADICTION" THEN 4
    ELSE IF label = "NEUTRAL" THEN 2
    ELSE 0

\* Faulty variant: ENTAILMENT spans are counted like the others
SkipsSpan_CountAll(sp) == FALSE

\* Lines 209-210: if span.label == "ENTAILMENT": continue
SkipsSpan(sp) == sp.label = "ENTAILMENT"

\* Lines 211-216: the interval a span contributes, if any.
SpanInterval(sp) ==
    IF sp.end > sp.start
      THEN << << sp.start, sp.end >> >>
      ELSE IF Len(sp.text) > 0
        THEN << << 0, Len(sp.text) >> >>
        ELSE << >>

\* Lines 207-216: the loop that collects the intervals, in span order.
RECURSIVE CollectIntervals(_)
CollectIntervals(ss) ==
    IF ss = << >> THEN << >>
    ELSE (IF SkipsSpan(Head(ss)) THEN << >> ELSE SpanInterval(Head(ss)))
         \o CollectIntervals(Tail(ss))

\* Python's order on (start, end) tuples
TupleLE(a, b) == a[1] < b[1] \/ (a[1] = b[1] /\ a[2] <= b[2])

RECURSIVE InsertSorted(_, _)
InsertSorted(x, sorted) ==
    IF sorted = << >> THEN << x >>
    ELSE IF TupleLE(x, Head(sorted)) THEN << x >> \o sorted
    ELSE << Head(sorted) >> \o InsertSorted(x, Tail(sorted))

\* Line 221: intervals.sort()
RECURSIVE SortIntervals(_)
SortIntervals(iv) ==
    IF iv = << >> THEN << >>
    ELSE InsertSorted(Head(iv), SortIntervals(Tail(iv)))

\* Faulty variant: every interval is kept as it is: overlaps are counted twice
MergeStep_NoMerge(merged, iv) == Append(merged, iv)

\* Lines 224-228: one step of the merge loop.
MergeStep(merged, iv) ==
    LET last == merged[Len(merged)] IN
    IF iv[1] <= last[2]
      THEN [merged EXCEPT ![Len(merged)] = << last[1], Max(last[2], iv[2]) >>]
      ELSE Append(merged, iv)

RECURSIVE MergeLoop(_, _)
MergeLoop(merged, rest) ==
    IF rest = << >> THEN merged
    ELSE MergeLoop(MergeStep(merged, Head(rest)), Tail(rest))

\* Lines 222-228: merged = [intervals[0]]; for start, end in intervals[1:]
MergeIntervals(sorted) == MergeLoop(<< Head(sorted) >>, Tail(sorted))

RECURSIVE SumLengths(_)
SumLengths(iv) ==
    IF iv = << >> THEN 0
    ELSE (Head(iv)[2] - Head(iv)[1]) + SumLengths(Tail(iv))

\* Faulty variant: the result is not clamped below
Clamp_NoFloor(n, d) == IF n > d THEN << 1, 1 >> ELSE << n, d >>

\* Line 232: max(0.0, min(1.0, grounded_pct)) of the value n/d
Clamp(n, d) ==
    IF n < 0 THEN Frac(0, 1)
    ELSE IF n > d THEN Frac(1, 1)
    ELSE Frac(n, d)

\* _grounded_percent(summary, spans)
GroundedPercent(summ, ss) ==
    IF Len(summ) = 0 THEN Frac(1, 1)
    ELSE LET intervals == CollectIntervals(ss) IN
         IF intervals = << >> THEN Frac(1, 1)
         ELSE LET merged == MergeIntervals(SortIntervals(intervals))
                  hallucinated_chars == SumLengths(merged)
                  denom == Max(Len(summ), 1)
              IN  Clamp(denom - hallucinated_chars, denom)

\* Faulty variant: the span-score rule also fires on ENTAILMENT spans
SpanBlocks_AnyLabel(sp, span_conf, contradiction_conf) ==
    \/ sp.label = "CONTRADICTION" /\ sp.confidence >= contradiction_conf
    \/ sp.hallucination_score >= span_conf

\* Lines 253-256: the two per-span rules of _should_block
SpanBlocks(sp, span_conf, contradiction_conf) ==
    \/ sp.label = "CONTRADICTION" /\ sp.confidence >= contradiction_conf
    \/ sp.hallucination_score >= span_conf /\ sp.label # "ENTAILMENT"

\* Faulty variant: a grounded_pct equal to grounded_min blocks
ShouldBlock_AtMin(grounded_pct, ss, grounded_min, span_conf, contradiction_conf) ==
    IF grounded_pct[1] * 100 <= grounded_min * grounded_pct[2] THEN TRUE
    ELSE \E i \in DOMAIN ss : SpanBlocks(ss[i], span_conf, contradiction_conf)

\* Lines 250-257: _should_block
ShouldBlock(grounded_pct, ss, grounded_min, span_conf, contradiction_conf) ==
    IF FracLTHundredths(grounded_pct, grounded_min) THEN TRUE
    ELSE \E i \in DOMAIN ss : SpanBlocks(ss[i], span_conf, contradiction_conf)

\* ---------------------------------------------- contexts (lettucedetect.py)
\* A context argument: None, one string, or a list of strings.
ContextNone == [kind |-> "none", items |-> << >>]
ContextStr(s) == [kind |-> "str", items |-> << s >>]
ContextList(l) == [kind |-> "list", items |-> l]

\* _normalize_contexts (strings serialise to themselves)
NormalizeContexts(ctx) ==
    IF ctx.kind = "none" THEN << Str(0) >>
    ELSE ctx.items

\* Lines 197-198: the slices of one context longer than chunk_size
RECURSIVE Slices(_, _, _)
Slices(ctx, start, chunk_size) ==
    IF start >= Len(ctx) THEN << >>
    ELSE << SubSeq(ctx, start + 1, Min(start + chunk_size, Len(ctx))) >>
         \o Slices(ctx, start + chunk_size, chunk_size)

RECURSIVE ChunkLoop(_, _)
ChunkLoop(contexts, chunk_size) ==
    IF contexts = << >> THEN << >>
    ELSE (IF Len(Head(contexts)) <= chunk_size
            THEN << Head(contexts) >>
            ELSE Slices(Head(contexts), 0, chunk_size))
         \o ChunkLoop(Tail(contexts), chunk_size)

\* Faulty variant: contexts longer than chunk_size are not split
ChunkContexts_Unsplit(contexts, chunk_size) ==
    IF contexts = << >> THEN << Str(0) >> ELSE contexts

\* _chunk_contexts
ChunkContexts(contexts, chunk_size) ==
    IF chunk_size <= 0 THEN contexts
    ELSE LET chunks == ChunkLoop(contexts, chunk_size) IN
         IF chunks = << >> THEN << Str(0) >> ELSE chunks

\* ------------------------------------------- raw predictions and coercion
\* A JSON value of a prediction field: t is its type, s its characters when a
\* string, n its number (an int as it is, a float in hundredths); JNull is
\* a key holding null, JMissing an absent key.
JStr(s) == [t |-> "str", s |-> s, n |-> 0]
JInt(n) == [t |-> "int", s |-> << >>, n |-> n]
JFloat(h) == [t |-> "float", s |-> << >>, n |-> h]
JNull == [t |-> "null", s |-> << >>, n |-> 0]
JMissing == [t |-> "missing", s |-> << >>, n |-> 0]

\* A raw prediction: a dict with the four fields, or something else.
RawItem(t, s, e, h) ==
    [shape |-> "dict", text |-> t, start |-> s, end |-> e,
     hallucination_score |-> h]

NonDictItem ==
    [shape |-> "other", text |-> JMissing, start |-> JMissing,
     end |-> JMissing, hallucination_score |-> JMissing]

\* _RawSpan
RawSpan(t, s, e, h) ==
    [text |-> t, start |-> s, end |-> e, hallucination_score |-> h]

DigitChars == << "0", "1", "2", "3", "4", "5", "6", "7", "8", "9" >>

IsDigit(c) == \E i \in 1..10 : DigitChars[i] = c
DigitVal(c) == (CHOOSE i \in 1..10 : DigitChars[i] = c) - 1

\* A non-empty string of decimal digits: what int() parses among the strings
\* str.isdigit() accepts
IsDigitStr(s) == Len(s) > 0 /\ \A i \in DOMAIN s : IsDigit(s[i])

\* SUPERSCRIPT TWO (U+00B2), one character: str.isdigit() accepts it and
\* int() rejects it with ValueError
SuperscriptTwo == "sup2"

\* str.isdigit() on the characters a JSON string is drawn from here
PyIsDigit(s) ==
    /\ Len(s) > 0
    /\ \A i \in DOMAIN s : IsDigit(s[i]) \/ s[i] = SuperscriptTwo

\* int(s) of a string of decimal digits
RECURSIVE ParseInt(_)
ParseInt(s) ==
    IF s = << >> THEN 0
    ELSE 10 * ParseInt(SubSeq(s, 1, Len(s) - 1)) + DigitVal(s[Len(s)])

\* str(n) of an int
RECURSIVE NatToStr(_)
NatToStr(n) ==
    IF n < 10 THEN << DigitChars[n + 1] >>
    ELSE NatToStr(n \div 10) \o << DigitChars[(n % 10) + 1] >>

IntToStr(n) == IF n < 0 THEN << "-" >> \o NatToStr(0 - n) ELSE NatToStr(n)

\* str(x) of a non-negative float given in hundredths: 0.9, 0.95, 1.0
FloatToStr(h) ==
    NatToStr(h \div 100) \o << "." >> \o
        (IF h % 10 = 0 THEN NatToStr((h % 100) \div 10)
         ELSE NatToStr((h % 100) \div 10) \o NatToStr(h % 10))

\* str(value) of a field value that is not a str
PyStr(v) ==
    IF v.t = "int" THEN IntToStr(v.n)
    ELSE IF v.t = "float" THEN FloatToStr(v.n)
    ELSE << "N", "o", "n", "e" >>

\* The position of the decimal point of s, 0 if it has none
PointAt(s) ==
    IF \E i \in DOMAIN s : s[i] = "."
      THEN CHOOSE i \in DOMAIN s : s[i] = "."
      ELSE 0

IsDigitsOrEmpty(s) == \A i \in DOMAIN s : IsDigit(s[i])

\* _is_number(s) for a str of digits with at most one "." and at most two
\* digits after it ("1", "0.9", ".5", "1."); no other characters are drawn
\* here except letters, which float() rejects
IsNumberStr(s) ==
    \/ IsDigitStr(s)
    \/ /\ PointAt(s) >= 1
       /\ Len(s) >= 2
       /\ IsDigitsOrEmpty(SubSeq(s, 1, PointAt(s) - 1))
       /\ IsDigitsOrEmpty(SubSeq(s, PointAt(s) + 1, Len(s)))
       /\ Len(s) - PointAt(s) <= 2

\* float(s), in hundredths, of such a string
ParseFloat(s) ==
    IF IsDigitStr(s) THEN 100 * ParseInt(s)
    ELSE LET frac == SubSeq(s, PointAt(s) + 1, Len(s)) IN
         100 * ParseInt(SubSeq(s, 1, PointAt(s) - 1))
           + (IF Len(frac) = 1 THEN 10 * ParseInt(frac) ELSE ParseInt(frac))

\* Lines 157, 161-162: text = item.get("text", ""); str(text) unless a str
CoerceText(v) ==
    IF v.t = "missing" THEN Str(0)
    ELSE IF v.t = "str" THEN v.s
    ELSE PyStr(v)

\* Lines 158-159, 163-166: start = item.get("start", 0); an int is kept,
\* anything else becomes int(start) if str(start).isdigit() else 0
CoerceOffset(v) ==
    IF v.t = "missing" THEN 0
    ELSE IF v.t = "int" THEN v.n
    ELSE LET s == IF v.t = "str" THEN v.s ELSE PyStr(v) IN
         IF IsDigitStr(s) THEN ParseInt(s) ELSE 0

\* Lines 163-166: int(start) is reached because str(start).isdigit() holds,
\* and raises ValueError
OffsetRaises(v) ==
    /\ v.t \notin {"missing", "int"}
    /\ LET s == IF v.t = "str" THEN v.s ELSE PyStr(v) IN
         PyIsDigit(s) /\ ~ IsDigitStr(s)

\* Lines 160, 167-169: score = item.get("hallucination_score", 0.0); a number
\* is kept, anything else becomes float(score) if _is_number(score) else 0.0
CoerceScore(v) ==
    IF v.t = "missing" THEN 0
    ELSE IF v.t = "float" THEN v.n
    ELSE IF v.t = "int" THEN 100 * v.n
    ELSE IF v.t = "str" /\ IsNumberStr(v.s) THEN ParseFloat(v.s)
    ELSE 0

\* Lines 163-166: _coerce_span raises ValueError for a dict item
CoerceRaises(item) == OffsetRaises(item.start) \/ OffsetRaises(item.end)

\* _coerce_span for a dict item that does not raise (a non-dict item raises,
\* see CoerceFails)
CoerceSpan(item) ==
    RawSpan(CoerceText(item.text), CoerceOffset(item.start),
            CoerceOffset(item.end), CoerceScore(item.hallucination_score))

\* ------------------------------------------------- inputs of the operations
SeqsUpTo(S, n) == UNION { [1..k -> S] : k \in 0..n }

DefaultGroundedMin == 85
DefaultSpanConf == 90
DefaultContradictionConf == 90
DefaultChunkSize == 2000

Thresholds(gm, sc, cc, cs) ==
    [grounded_min |-> gm, span_conf |-> sc, contradiction_conf |-> cc,
     chunk_size |-> cs]

DefaultValidator ==
    Thresholds(DefaultGroundedMin, DefaultSpanConf, DefaultContradictionConf,
               DefaultChunkSize)

\* The built-in thresholds, and validators constructed with explicit ones:
\* a grounded_min of 1.0 and one above 1.0 among them.
Validators ==
    { DefaultValidator, Thresholds(50, 95, 95, 2), Thresholds(50, 95, 95, 0),
      Thresholds(100, 90, 90, 2), Thresholds(101, 90, 90, 2) }

Contexts ==
    { ContextNone,
      ContextList(<< >>),
      ContextList(<< << "a", "b" >>, << "c" >> >>),
      ContextStr(<< "a", "b", "c" >>) }

Scores == {0, 90}
Confidences == {0, 50, 90}

\* What the span detector may return for one span.
RawItems ==
    { RawItem(JStr(Str(1)), JInt(r[1]), JInt(r[2]), JFloat(h)) :
        r \in { << 0, 1 >>, << 0, 0 >> }, h \in Scores }
    \cup { RawItem(JMissing, JMissing, JMissing, JMissing), NonDictItem,
           RawItem(JStr(Str(1)), JStr(<< SuperscriptTwo >>), JInt(1),
                   JFloat(0)) }

\* Inputs of a direct _coerce_span call: each field missing, of its own type,
\* or of another type (convertible or not).
CoerceTexts == { JMissing, JStr(Str(1)), JInt(5), JNull }

CoerceOffsets ==
    { JMissing, JInt(1), JStr(<< "1", "2" >>), JStr(Str(1)),
      JStr(<< SuperscriptTwo >>), JFloat(300), JNull }

CoerceScores ==
    { JMissing, JFloat(90), JInt(1), JStr(<< "0", ".", "9" >>), JStr(Str(1)),
      JNull }

CoerceItems ==
    { RawItem(t, b, e, h) :
        t \in CoerceTexts, b \in CoerceOffsets, e \in CoerceOffsets,
        h \in CoerceScores }
    \cup { NonDictItem }

PredictionLists == SeqsUpTo(RawItems, MaxSpans)

\* NLIPrediction (types.py): what the NLI backend may answer.
NLIPredictions == [label : Labels, confidence : Confidences]

\* Inputs of a direct _grounded_percent call: every span with start < end in
\* the offset range (one character of text), and the spans without usable
\* offsets (end <= start), with and without text.
Offsets == (0 - 1)..(MaxSummaryLen + 1)

GroundedShapes ==
    { x \in { << Str(1), s, e >> : s \in Offsets, e \in Offsets } :
        x[2] < x[3] }
    \cup { << Str(0), 0, 0 >>, << Str(1), 0, 0 >>,
           << Str(MaxSummaryLen + 1), 0, 0 >>, << Str(2), 2, 1 >> }

GroundedSpans ==
    { SpanDetection(x[1], x[2], x[3], 0, l, 0, SeverityFromLabel(l)) :
        x \in GroundedShapes, l \in Labels }

\* Summaries handed to validate: empty, one character, the longest.
ValidateSummaries == { Str(0), Str(1), Str(MaxSummaryLen) }

\* Inputs of a direct _chunk_contexts call: up to two contexts of distinct
\* characters up to MaxContextLen with chunk sizes around zero and the default
\* one, and one long context with the default chunk size.
Alphabet == << "a", "b", "c", "d", "e", "f", "g", "h" >>

ContextTexts == { SubSeq(Alphabet, 1, n) : n \in 0..MaxContextLen }

ChunkSizes == ((0 - 1)..MaxChunkSize) \cup { DefaultChunkSize }

ChunkArgs ==
    { << ContextList(l), cs >> :
        l \in SeqsUpTo(ContextTexts, 2), cs \in ChunkSizes }
    \cup { << ContextList(<< Str(5000) >>), DefaultChunkSize >> }

NliTexts == { Str(0), Str(1) }
NliChunks == { << "a", "b" >>, << "c" >> }

\* ------------------------------------------ validate (lettucedetect.py)
\* Lines 49-91: the span detector answers; spans and context_chunks are set up.
DetectSpans ==
    /\ entry = "validate"
    /\ pc = "start"
    /\ \E preds \in PredictionLists : predictions' = preds
    /\ spans' = << >>
    /\ context_chunks' =
           ChunkContexts(NormalizeContexts(context), validator.chunk_size)
    /\ item_idx' = 1
    /\ calls' = Append(calls, DetectCall(summary, TRUE))
    /\ pc' = "next_item"
    /\ UNCHANGED << entry, summary, ret, error, overseerLocals, validator,
                    context, span, nliVars, args, state, generatorVars >>

\* Lines 53, 78-88: the detector call raises, the status is not 2xx, the body
\* does not parse or holds no list of predictions.
DetectSpansFails ==
    /\ entry = "validate"
    /\ pc = "start"
    /\ calls' = Append(calls, DetectCall(summary, FALSE))
    /\ pc' = "raised"
    /\ error' = "DetectError"
    /\ UNCHANGED << entry, summary, ret, overseerLocals, validateVars,
                    nliVars, args, state, generatorVars >>

\* Lines 92-94 and 131-132: the next item is coerced and _infer_nli starts.
CoerceItem ==
    /\ entry = "validate"
    /\ pc = "next_item"
    /\ item_idx <= Len(predictions)
    /\ predictions[item_idx].shape = "dict"
    /\ ~ CoerceRaises(predictions[item_idx])
    /\ span' = CoerceSpan(predictions[item_idx])
    /\ text' = span'.text
    /\ best_label' = "NEUTRAL"
    /\ best_confidence' = 0
    /\ chunk_idx' = 1
    /\ nli_calls' = << >>
    /\ pc' = "infer"
    /\ UNCHANGED << entry, summary, ret, error, overseerVars, validator,
                    context, predictions, context_chunks, item_idx, spans,
                    args, state, generatorVars >>

\* Lines 155-156: a prediction that is not a dict
CoerceFails ==
    /\ entry = "validate"
    /\ pc = "next_item"
    /\ item_idx <= Len(predictions)
    /\ predictions[item_idx].shape # "dict"
    /\ pc' = "raised"
    /\ error' = "RuntimeError"
    /\ UNCHANGED << entry, summary, ret, overseerVars, validateVars, nliVars,
                    args, state, generatorVars >>

\* Lines 163-166: int() raises on an offset of a dict item; nothing catches it
CoerceItemRaises ==
    /\ entry = "validate"
    /\ pc = "next_item"
    /\ item_idx <= Len(predictions)
    /\ predictions[item_idx].shape = "dict"
    /\ CoerceRaises(predictions[item_idx])
    /\ pc' = "raised"
    /\ error' = "ValueError"
    /\ UNCHANGED << entry, summary, ret, overseerVars, validateVars, nliVars,
                    args, state, generatorVars >>

NliCall(premise, hypothesis, ok, p) ==
    [premise |-> premise, hypothesis |-> hypothesis, ok |-> ok,
     label |-> p.label, confidence |-> p.confidence]

\* Faulty variant: a later chunk of equal confidence replaces the earlier one
Outperforms_OrEqual(confidence, best) == confidence >= best

\* Line 138: if prediction.confidence > best_confidence
Outperforms(confidence, best) == confidence > best

\* Faulty variant: the premise is always the first chunk
Premise_First(chunks, i) == chunks[1]

\* Line 133: for chunk in context_chunks
Premise(chunks, i) == chunks[i]

\* Lines 133-140: one iteration of _infer_nli's loop
Infer ==
    /\ entry \in {"validate", "infer_nli"}
    /\ pc = "infer"
    /\ chunk_idx <= Len(context_chunks)
    /\ \E p \in NLIPredictions :
         /\ nli_calls' =
                Append(nli_calls,
                       NliCall(Premise(context_chunks, chunk_idx), text, TRUE, p))
         /\ IF Outperforms(p.confidence, best_confidence)
              THEN best_label' = p.label /\ best_confidence' = p.confidence
              ELSE UNCHANGED << best_label, best_confidence >>
    /\ chunk_idx' = chunk_idx + 1
    /\ UNCHANGED << entry, pc, summary, ret, error, overseerVars,
                    validateVars, text, args, state, generatorVars >>

\* Line 134 when the NLI backend raises: nothing catches it.
InferFails ==
    /\ entry \in {"validate", "infer_nli"}
    /\ pc = "infer"
    /\ chunk_idx <= Len(context_chunks)
    /\ nli_calls' =
           Append(nli_calls,
                  NliCall(Premise(context_chunks, chunk_idx), text, FALSE,
                          [label |-> "NEUTRAL", confidence |-> 0]))
    /\ pc' = "raised"
    /\ error' = "NLIError"
    /\ UNCHANGED << entry, summary, ret, overseerVars, validateVars, text,
                    chunk_idx, best_label, best_confidence, args, state, generatorVars >>

\* Faulty variant: the latest prediction always replaces the best one
InferNliStep_Last(best, p) == << p.label, p.confidence >>

\* Lines 136-140: the loop body of _infer_nli on (best_label, best_confidence)
InferNliStep(best, p) ==
    IF Outperforms(p.confidence, best[2]) THEN << p.label, p.confidence >>
    ELSE best

RECURSIVE InferNliFrom(_, _, _)
InferNliFrom(best, preds, i) ==
    IF i > Len(preds) THEN best
    ELSE InferNliFrom(InferNliStep(best, preds[i]), preds, i + 1)

\* Lines 131-141: _infer_nli as a function of the backend's answers, in the
\* order of the chunks they were given for.
InferNli(preds) == InferNliFrom(<< "NEUTRAL", 0 >>, preds, 1)

\* Lines 141 and 94-106: _infer_nli returns and the SpanDetection is appended.
AppendSpan ==
    /\ entry = "validate"
    /\ pc = "infer"
    /\ chunk_idx > Len(context_chunks)
    /\ spans' = Append(spans,
                       SpanDetection(span.text, span.start, span.end,
                                     span.hallucination_score, best_label,
                                     best_confidence,
                                     SeverityFromLabel(best_label)))
    /\ item_idx' = item_idx + 1
    /\ nli_calls' = << >>
    /\ pc' = "next_item"
    /\ UNCHANGED << entry, summary, ret, error, overseerVars, validator,
                    context, predictions, context_chunks, span, text,
                    chunk_idx, best_label, best_confidence, args, state, generatorVars >>

\* Faulty variant: needs_fact_check follows the blocked flag
NeedsFactCheck_IfBlocked(ss, blocked) == blocked

\* Line 109: needs_fact_check = len(spans) > 0
NeedsFactCheck(ss, blocked) == Len(ss) > 0

\* Lines 108-124: the result is computed and returned.
Finish ==
    /\ entry = "validate"
    /\ pc = "next_item"
    /\ item_idx > Len(predictions)
    /\ LET grounded_pct == GroundedPercent(summary, spans)
           blocked == ShouldBlock(grounded_pct, spans, validator.grounded_min,
                                  validator.span_conf,
                                  validator.contradiction_conf)
       IN  ret' = Some(ValidationResult(grounded_pct,
                                        NeedsFactCheck(spans, blocked),
                                        blocked, spans))
    /\ pc' = "returned"
    /\ UNCHANGED << entry, summary, error, overseerVars, validateVars,
                    nliVars, args, state, generatorVars >>

\* Line 141 of a direct _infer_nli call
ReturnInfer ==
    /\ entry = "infer_nli"
    /\ pc = "infer"
    /\ chunk_idx > Len(context_chunks)
    /\ ret' = Some(<< best_label, best_confidence >>)
    /\ pc' = "returned"
    /\ UNCHANGED << entry, summary, error, overseerVars, validateVars,
                    nliVars, args, state, generatorVars >>

\* A direct _grounded_percent(summary, spans) call
ApplyGroundedPercent ==
    /\ entry = "grounded"
    /\ pc = "start"
    /\ ret' = Some(GroundedPercent(summary, spans))
    /\ pc' = "returned"
    /\ UNCHANGED << entry, summary, error, overseerVars, validateVars,
                    nliVars, args, state, generatorVars >>

\* A direct _chunk_contexts(contexts, chunk_size) call
ApplyChunkContexts ==
    /\ entry = "chunk"
    /\ pc = "start"
    /\ context_chunks' =
           ChunkContexts(NormalizeContexts(context), validator.chunk_size)
    /\ ret' = Some(context_chunks')
    /\ pc' = "returned"
    /\ UNCHANGED << entry, summary, error, overseerVars, validator, context,
                    predictions, item_idx, span, spans, nliVars, args, state, generatorVars >>

\* A direct _coerce_span(item) call that returns
ApplyCoerceSpan ==
    /\ entry = "coerce"
    /\ pc = "start"
    /\ predictions[1].shape = "dict"
    /\ ~ CoerceRaises(predictions[1])
    /\ span' = CoerceSpan(predictions[1])
    /\ ret' = Some(span')
    /\ pc' = "returned"
    /\ UNCHANGED << entry, summary, error, overseerVars, validator, context,
                    predictions, context_chunks, item_idx, spans, nliVars,
                    args, state, generatorVars >>

\* Lines 155-156 and 163-166: a direct _coerce_span(item) call that raises
CoerceSpanRaises ==
    /\ entry = "coerce"
    /\ pc = "start"
    /\ \/ predictions[1].shape # "dict" /\ error' = "RuntimeError"
       \/ /\ predictions[1].shape = "dict"
          /\ CoerceRaises(predictions[1])
          /\ error' = "ValueError"
    /\ pc' = "raised"
    /\ UNCHANGED << entry, summary, ret, overseerVars, validateVars, nliVars,
                    args, state, generatorVars >>

\* --------------------------------- context estimator (context/estimator.py)
\* Thresholds are hundredths (0.8 is 80).  The (max_context, threshold) pairs
\* drawn below whose product in binary floating point lies just below the
\* decimal product, an integer: 50 * 0.58 is 28.999999999999996.
RoundsBelow == { << 50, 58 >>, << 100, 29 >>, << 100, 57 >>, << 100, 58 >> }

\* max_context * threshold as the float the code computes, in units of 1/200:
\* the decimal product, or a value just below it (half a hundredth stands for
\* the rounding deficit; it compares with every integer and every hundredth
\* as the float does).
FloatProduct(max_context, threshold) ==
    2 * max_context * threshold
        - (IF << max_context, threshold >> \in RoundsBelow THEN 1 ELSE 0)

\* int(x) of a non-negative float in units of 1/200: truncation
IntOf(x) == x \div 200

\* Lines 171 and 191: limit = int(max_context * threshold)
Limit(max_context, threshold) ==
    IntOf(FloatProduct(max_context, threshold))

\* Faulty variant: a total equal to the limit already exceeds
WillExceedContext_AtLimit(current_tokens, additional_tokens, max_context, threshold) ==
    current_tokens + additional_tokens >= Limit(max_context, threshold)

\* Lines 170-172: will_exceed_context
WillExceedContext(current_tokens, additional_tokens, max_context, threshold) ==
    current_tokens + additional_tokens > Limit(max_context, threshold)

\* Faulty variant: the remaining capacity is not floored at 0
RemainingCapacity_Signed(current_tokens, max_context, threshold) ==
    Limit(max_context, threshold) - current_tokens

\* Lines 191-193: remaining_capacity
RemainingCapacity(current_tokens, max_context, threshold) ==
    Max(0, Limit(max_context, threshold) - current_tokens)

\* The calls drawn: token counts up to MaxTokens against small windows, and
\* the calls of test_context_management.
EstimatorContexts == { 0, 1, 7, 50, 100 }
EstimatorThresholds == { 0, 29, 50, 57, 58, 70, 80, 100 }

EstimatorArgs ==
    [current_tokens : 0..MaxTokens, additional_tokens : 0..MaxTokens,
     max_context : EstimatorContexts, threshold : EstimatorThresholds]
    \cup { [current_tokens |-> 100000, additional_tokens |-> 30000,
             max_context |-> 128000, threshold |-> 80],
           [current_tokens |-> 50000, additional_tokens |-> 0,
             max_context |-> 128000, threshold |-> 80] }

\* A will_exceed_context(current_tokens, additional_tokens, max_context,
\* threshold) call
ApplyWillExceedContext ==
    /\ entry = "will_exceed_context"
    /\ pc = "start"
    /\ ret' = Some(WillExceedContext(args.current_tokens,
                                     args.additional_tokens,
                                     args.max_context, args.threshold))
    /\ pc' = "returned"
    /\ UNCHANGED << entry, summary, error, overseerVars, validateVars,
                    nliVars, args, state, generatorVars >>

\* A remaining_capacity(current_tokens, max_context, threshold) call
ApplyRemainingCapacity ==
    /\ entry = "remaining_capacity"
    /\ pc = "start"
    /\ ret' = Some(RemainingCapacity(args.current_tokens, args.max_context,
                                     args.threshold))
    /\ pc' = "returned"
    /\ UNCHANGED << entry, summary, error, overseerVars, validateVars,
                    nliVars, args, state, generatorVars >>

\* ------------------------------------ branch splitter (context/splitter.py)
\* A paper as the splitter reads it.  fields_of_study is << >> for None and
\* for an empty list; year and citation_count are Optional.
Paper(id, fields, year, citations) ==
    [paper_id |-> id, fields_of_study |-> fields, year |-> year,
     citation_count |-> citations]

\* SplitResult (lines 28-35)
SplitResult(strategy, groups, queries, labels) ==
    [strategy |-> strategy, groups |-> groups, group_queries |-> queries,
     group_labels |-> labels]

\* Line 46: default_num_splits
DefaultNumSplits == 2

\* Line 133: num_splits = num_splits or self.default_num_splits
NumSplits(num_splits) ==
    IF num_splits = None \/ num_splits = Some(0) THEN DefaultNumSplits
    ELSE num_splits[1]

\* seq[:n] and seq[n:] for n >= 0
Take(seq, n) == SubSeq(seq, 1, Min(n, Len(seq)))
Drop(seq, n) == SubSeq(seq, Min(n, Len(seq)) + 1, Len(seq))

\* seq[start:stop] for 0 <= start
Slice(seq, start, stop) == SubSeq(seq, start + 1, Min(stop, Len(seq)))

General == << "G", "e", "n", "e", "r", "a", "l" >>
Other == << "O", "t", "h", "e", "r" >>
Unknown == << "U", "n", "k", "n", "o", "w", "n" >>

In ==
    << " ", "i", "n", " " >>
Published ==
    << " ", "p", "u", "b", "l", "i", "s", "h", "e", "d", ":" >>
HighImpact ==
    << "H", "i", "g", "h", " ", "I", "m", "p", "a", "c", "t" >>
Emerging ==
    << "E", "m", "e", "r", "g", "i", "n", "g" >>
MediumImpact ==
    << "M", "e", "d", "i", "u", "m", " ", "I", "m", "p", "a", "c", "t", " " >>
HighlyCited ==
    << " ", "h", "i", "g", "h", "l", "y", " ", "c", "i", "t", "e", "d" >>
Recent ==
    << " ", "r", "e", "c", "e", "n", "t" >>
BranchLabel ==
    << "B", "r", "a", "n", "c", "h", " " >>
SplitOpen ==
    << " ", "(", "s", "p", "l", "i", "t", " " >>

Quoted(query) == << "\"" >> \o query \o << "\"" >>

\* d[key].append(id) of a defaultdict(list) d, kept as the sequence of its
\* (key, list) items in insertion order
AppendTo(d, key, id) ==
    IF \E i \in DOMAIN d : d[i][1] = key
      THEN [i \in DOMAIN d |->
              IF d[i][1] = key THEN << key, Append(d[i][2], id) >> ELSE d[i]]
      ELSE Append(d, << key, << id >> >>)

\* Line 158: primary_field = (paper.fields_of_study or ["General"])[0]
PrimaryField(paper) ==
    IF paper.fields_of_study = << >> THEN General
    ELSE paper.fields_of_study[1]

\* Lines 156-159: fields after the first n papers
RECURSIVE FieldsOf(_, _)
FieldsOf(papers, n) ==
    IF n = 0 THEN << >>
    ELSE AppendTo(FieldsOf(papers, n - 1), PrimaryField(papers[n]),
                  papers[n].paper_id)

\* Line 162: sorted(..., key=lambda x: len(x[1]), reverse=True) is stable:
\* an item goes behind the items that are at least as large
RECURSIVE InsertBySize(_, _)
InsertBySize(x, sorted) ==
    IF sorted = << >> THEN << x >>
    ELSE IF Len(Head(sorted)[2]) >= Len(x[2])
      THEN << Head(sorted) >> \o InsertBySize(x, Tail(sorted))
      ELSE << x >> \o sorted

RECURSIVE SortBySize(_, _)
SortBySize(items, n) ==
    IF n = 0 THEN << >>
    ELSE InsertBySize(items[n], SortBySize(items, n - 1))

\* Faulty variant: the fields beyond the first num_splits are dropped
TopFields_NoOther(sorted_fields, num_splits) == Take(sorted_fields, num_splits)

\* Lines 163-171: top_fields
TopFields(sorted_fields, num_splits) ==
    LET top_fields == Take(sorted_fields, num_splits)
        rest == Drop(sorted_fields, num_splits)
        other_papers == Concat([i \in DOMAIN rest |-> rest[i][2]])
    IN  IF Len(sorted_fields) > num_splits /\ other_papers # << >>
          THEN Append(top_fields, << Other, other_papers >>)
          ELSE top_fields

\* Lines 148-183: _split_by_field
SplitByField(query, papers, num_splits) ==
    LET fields == FieldsOf(papers, Len(papers))
        top_fields == TopFields(SortBySize(fields, Len(fields)), num_splits)
        labels == [i \in DOMAIN top_fields |-> top_fields[i][1]]
    IN  SplitResult("by_field",
                    [i \in DOMAIN top_fields |-> top_fields[i][2]],
                    [i \in DOMAIN labels |->
                        Quoted(query) \o In \o labels[i]],
                    labels)

\* Line 195: year = paper.year or 0
YearOf(paper) == IF paper.year = None THEN 0 ELSE paper.year[1]

\* Lines 193-196: by_year after the first n papers
RECURSIVE ByYear(_, _)
ByYear(papers, n) ==
    IF n = 0 THEN << >>
    ELSE AppendTo(ByYear(papers, n - 1), YearOf(papers[n]),
                  papers[n].paper_id)

\* d[key] of a key the dict holds
Lookup(d, key) == d[CHOOSE i \in DOMAIN d : d[i][1] = key][2]

RECURSIVE InsertAscending(_, _)
InsertAscending(x, sorted) ==
    IF sorted = << >> THEN << x >>
    ELSE IF Head(sorted) <= x
      THEN << Head(sorted) >> \o InsertAscending(x, Tail(sorted))
      ELSE << x >> \o sorted

\* Line 198: years = sorted(by_year.keys())
RECURSIVE SortedKeys(_, _)
SortedKeys(d, n) ==
    IF n = 0 THEN << >>
    ELSE InsertAscending(d[n][1], SortedKeys(d, n - 1))

\* Lines 216-219 and 227-230: the label of a group of years
YearLabel(current_years) ==
    IF Len(current_years) = 1 THEN IntToStr(current_years[1])
    ELSE IntToStr(current_years[1]) \o << "-" >>
         \o IntToStr(current_years[Len(current_years)])

\* Faulty variant: the closed group is not kept
CloseGroup_Lost(groups, current_group) == groups

\* Line 215: groups.append(current_group)
CloseGroup(groups, current_group) == Append(groups, current_group)

\* Lines 210-221: the loop over the first n years
RECURSIVE TimeLoop(_, _, _, _, _)
TimeLoop(by_year, years, n, papers_per_split, num_splits) ==
    IF n = 0
      THEN [groups |-> << >>, labels |-> << >>, current_group |-> << >>,
            current_years |-> << >>]
      ELSE LET st == TimeLoop(by_year, years, n - 1, papers_per_split,
                              num_splits)
               current_group == st.current_group \o Lookup(by_year, years[n])
               current_years == Append(st.current_years, years[n])
           IN  IF Len(current_group) >= papers_per_split
                  /\ Len(st.groups) < num_splits - 1
                 THEN [groups |-> CloseGroup(st.groups, current_group),
                       labels |-> Append(st.labels, YearLabel(current_years)),
                       current_group |-> << >>, current_years |-> << >>]
                 ELSE [st EXCEPT !.current_group = current_group,
                                 !.current_years = current_years]

\* Lines 185-242: _split_by_time
SplitByTime(query, papers, requested_splits) ==
    LET by_year == ByYear(papers, Len(papers))
        years == SortedKeys(by_year, Len(by_year))
        num_splits == IF Len(years) < requested_splits
                        THEN Max(1, Len(years)) ELSE requested_splits
        papers_per_split == Len(papers) \div num_splits
        st == TimeLoop(by_year, years, Len(years), papers_per_split,
                       num_splits)
        last == st.current_group # << >> \/ st.groups = << >>
        groups == IF last THEN Append(st.groups, st.current_group)
                  ELSE st.groups
        labels == IF last
                    THEN Append(st.labels,
                                IF st.current_years # << >>
                                  THEN YearLabel(st.current_years)
                                  ELSE Unknown)
                    ELSE st.labels
    IN  SplitResult("by_time", groups,
                    [i \in DOMAIN labels |->
                        Quoted(query) \o Published \o labels[i]],
                    labels)

\* Line 252: p.citation_count or 0
CitationsOf(paper) ==
    IF paper.citation_count = None THEN 0 ELSE paper.citation_count[1]

\* Faulty variant: the papers are sorted by ascending citation count
RECURSIVE InsertByCitations_Ascending(_, _)
InsertByCitations_Ascending(x, sorted) ==
    IF sorted = << >> THEN << x >>
    ELSE IF CitationsOf(Head(sorted)) <= CitationsOf(x)
      THEN << Head(sorted) >> \o InsertByCitations_Ascending(x, Tail(sorted))
      ELSE << x >> \o sorted

\* Line 252: sorted(papers, key=..., reverse=True) is stable
RECURSIVE InsertByCitations(_, _)
InsertByCitations(x, sorted) ==
    IF sorted = << >> THEN << x >>
    ELSE IF CitationsOf(Head(sorted)) >= CitationsOf(x)
      THEN << Head(sorted) >> \o InsertByCitations(x, Tail(sorted))
      ELSE << x >> \o sorted

RECURSIVE SortByCitations(_, _)
SortByCitations(papers, n) ==
    IF n = 0 THEN << >>
    ELSE InsertByCitations(papers[n], SortByCitations(papers, n - 1))

\* Faulty variant: the last group is cut like the others
GroupPapers_CutLast(papers, i, papers_per_split, num_splits) ==
    Slice(papers, i * papers_per_split,
          i * papers_per_split + papers_per_split)

\* Lines 259-264 and 316-320: group_papers of iteration i
GroupPapers(papers, i, papers_per_split, num_splits) ==
    IF i = num_splits - 1 THEN Drop(papers, i * papers_per_split)
    ELSE Slice(papers, i * papers_per_split,
               i * papers_per_split + papers_per_split)

\* Lines 258-267 and 315-323: the (i, ids) of the non-empty groups of the
\* first n iterations
RECURSIVE SliceGroups(_, _, _, _)
SliceGroups(papers, n, papers_per_split, num_splits) ==
    IF n = 0 THEN << >>
    ELSE LET group_papers == GroupPapers(papers, n - 1, papers_per_split,
                                         num_splits)
             before == SliceGroups(papers, n - 1, papers_per_split, num_splits)
         IN  IF group_papers # << >>
               THEN Append(before,
                           << n - 1,
                              [k \in DOMAIN group_papers |->
                                  group_papers[k].paper_id] >>)
               ELSE before

\* Lines 244-297: _split_by_citation_count
SplitByCitationCount(query, papers, num_splits) ==
    LET sorted_papers == SortByCitations(papers, Len(papers))
        papers_per_split == Max(1, Len(sorted_papers) \div num_splits)
        sliced == SliceGroups(sorted_papers, Max(num_splits, 0),
                              papers_per_split, num_splits)
    IN  SplitResult("by_citation_count",
                    [i \in DOMAIN sliced |-> sliced[i][2]],
                    [i \in DOMAIN sliced |->
                        IF i = 1 THEN Quoted(query) \o HighlyCited
                        ELSE IF i = Len(sliced) THEN Quoted(query) \o Recent
                        ELSE Quoted(query)],
                    [i \in DOMAIN sliced |->
                        IF i = 1 THEN HighImpact
                        ELSE IF i = Len(sliced) THEN Emerging
                        ELSE MediumImpact \o IntToStr(i - 1)])

\* Lines 299-333: _split_random, shuffled being what random.shuffle left
SplitRandom(query, shuffled, num_splits) ==
    LET papers_per_split == Max(1, Len(shuffled) \div num_splits)
        sliced == SliceGroups(shuffled, Max(num_splits, 0), papers_per_split,
                              num_splits)
    IN  SplitResult("random",
                    [i \in DOMAIN sliced |-> sliced[i][2]],
                    [i \in DOMAIN sliced |->
                        query \o SplitOpen \o IntToStr(i) \o << ")" >>],
                    [i \in DOMAIN sliced |->
                        BranchLabel \o IntToStr(sliced[i][1] + 1)])

\* SplitStrategy (lines 18-25)
Strategies == { "by_topic", "by_time", "by_field", "by_citation_count",
                "random" }

\* Lines 133-146: split, shuffled being what random.shuffle would leave
Split(query, papers, strategy, num_splits, shuffled) ==
    IF strategy = "by_time"
      THEN SplitByTime(query, papers, NumSplits(num_splits))
    ELSE IF strategy = "by_citation_count"
      THEN SplitByCitationCount(query, papers, NumSplits(num_splits))
    ELSE IF strategy = "random"
      THEN SplitRandom(query, shuffled, NumSplits(num_splits))
    ELSE SplitByField(query, papers, NumSplits(num_splits))

\* Lines 308-309: the orders random.shuffle may leave the papers in
Shuffles(papers) ==
    { [i \in DOMAIN papers |-> papers[perm[i]]] :
        perm \in Permutations(DOMAIN papers) }

\* Lines 74-80: the keys of fields in analyze_papers
FieldKeys(papers) ==
    UNION { IF papers[n].fields_of_study = << >> THEN { Unknown }
            ELSE { papers[n].fields_of_study[i] :
                     i \in DOMAIN papers[n].fields_of_study } :
            n \in DOMAIN papers }

\* Lines 89-92: the keys of years in analyze_papers
YearKeys(papers) == { YearOf(papers[n]) : n \in DOMAIN papers }

\* Line 96: year_range
YearRange(papers) ==
    LET years == YearKeys(papers) IN
    IF years = {} THEN << 0, 0 >>
    ELSE << CHOOSE y \in years : \A z \in years : y <= z,
            CHOOSE y \in years : \A z \in years : z <= y >>

\* Lines 345-366: suggest_strategy, with the viable flags of lines 85, 97, 111
SuggestStrategy(papers) ==
    IF Cardinality(FieldKeys(papers)) >= 2
       /\ Cardinality(FieldKeys(papers)) >= 3
      THEN "by_field"
    ELSE IF Cardinality(YearKeys(papers)) >= 2
            /\ YearRange(papers)[2] - YearRange(papers)[1] >= 5
      THEN "by_time"
    ELSE IF Len(papers) >= 4 THEN "by_citation_count"
    ELSE "random"

\* The branches drawn: up to MaxPapers accumulated papers, keyed by their
\* paper_id in insertion order, each with one of these field lists, years and
\* citation counts (the first four are those of test_context_management).
CS == << "C", "S" >>
NLP == << "N", "L", "P" >>
CV == << "C", "V" >>

PaperIds == << "p1", "p2", "p3", "p4", "p5", "p6" >>

PaperProfiles ==
    { << << CS, NLP >>, Some(2023), Some(100) >>,
      << << CS, CV >>, Some(2024), Some(50) >>,
      << << NLP >>, Some(2022), Some(200) >>,
      << << CV >>, Some(2023), Some(75) >>,
      << << >>, None, None >>,
      << << CS >>, Some(2018), Some(100) >> }

Branches ==
    { [i \in DOMAIN l |-> Paper(PaperIds[i], l[i][1], l[i][2], l[i][3])] :
        l \in SeqsUpTo(PaperProfiles, MaxPapers) }

NumSplitsArgs == { None } \cup { Some(n) : n \in 1..MaxSplits }

\* _split_random reads nothing of a paper but its paper_id: one profile.
PlainBranches ==
    { [i \in 1..n |-> Paper(PaperIds[i], << >>, None, None)] :
        n \in 0..MaxPapers }

SplitArgs ==
    [query : { << "q" >> }, papers : Branches,
     strategy : Strategies \ { "random" }, num_splits : NumSplitsArgs]
    \cup [query : { << "q" >> }, papers : PlainBranches,
          strategy : { "random" }, num_splits : NumSplitsArgs]

\* The orders of the papers a call of split may work on
Orders(call) ==
    IF call.strategy = "random" THEN Shuffles(call.papers)
    ELSE { call.papers }

\* A split(branch, strategy, num_splits) call
ApplySplit ==
    /\ entry = "split"
    /\ pc = "start"
    /\ \E shuffled \in Orders(args) :
          ret' = Some(Split(args.query, args.papers, args.strategy,
                            args.num_splits, shuffled))
    /\ pc' = "returned"
    /\ UNCHANGED << entry, summary, error, overseerVars, validateVars,
                    nliVars, args, state, generatorVars >>

\* A second split call with the same branch, strategy and num_splits
ApplySplitAgain ==
    /\ entry = "split"
    /\ pc = "returned"
    /\ \E shuffled \in Orders(args) :
          ret' = Some(Split(args.query, args.papers, args.strategy,
                            args.num_splits, shuffled))
    /\ pc' = "returned_again"
    /\ UNCHANGED << entry, summary, error, overseerVars, validateVars,
                    nliVars, args, state, generatorVars >>

\* A suggest_strategy(branch) call
ApplySuggestStrategy ==
    /\ entry = "suggest_strategy"
    /\ pc = "start"
    /\ ret' = Some(SuggestStrategy(args.papers))
    /\ pc' = "returned"
    /\ UNCHANGED << entry, summary, error, overseerVars, validateVars,
                    nliVars, args, state, generatorVars >>

\* ---------------------- branch manager (orchestration/branch_manager.py)
\* BranchStatus
PENDING == "pending"
RUNNING == "running"
COMPLETED == "completed"
PRUNED == "pruned"

BranchStatuses == { PENDING, RUNNING, COMPLETED, PRUNED }

\* A Branch: its status, its context budget used and its iterations so far
Branch(status, used, iterations) ==
    [status |-> status, context_window_used |-> used,
     iteration_count |-> iterations]

\* BranchConfig defaults: max_context_window and the split threshold, in
\* hundredths
DefaultMaxContextWindow == 128000
DefaultSplitThreshold == 80

BranchConfig(max_context_window, split_threshold) ==
    [max_context_window |-> max_context_window,
     split_threshold |-> split_threshold]

\* LoopState: the branches by id
LoopState(branches) == [branches |-> branches]

\* Faulty variant: a branch exactly at the threshold is not split yet
ShouldSplit_Above(branch, config) ==
    FracLT(<< config.split_threshold, 100 >>,
           << branch.context_window_used, config.max_context_window >>)

\* should_split: the used share of the context window has reached the
\* split threshold
ShouldSplit(branch, config) ==
    FracLE(<< config.split_threshold, 100 >>,
           << branch.context_window_used, config.max_context_window >>)

\* The status changes of the branch state machine
Transitions ==
    { << PENDING, RUNNING >>, << RUNNING, COMPLETED >>, << RUNNING, PRUNED >> }

\* Faulty variant: any status is set, also on a pruned branch
UpdateStatus_Any(branch, status) == [branch EXCEPT !.status = status]

\* update_status: the branch takes the status when the state machine has the
\* change, and keeps its status otherwise
UpdateStatus(branch, status) ==
    IF << branch.status, status >> \in Transitions
    THEN [branch EXCEPT !.status = status]
    ELSE branch

\* LoopState.add_branch
AddBranch(st, id, branch) ==
    [st EXCEPT !.branches =
        [b \in DOMAIN st.branches \cup { id } |->
            IF b = id THEN branch ELSE st.branches[b]]]

\* prune_branch: a status change of the branch, which stays in the map
PruneBranch(st, id) ==
    [st EXCEPT !.branches[id] = UpdateStatus(@, PRUNED)]

\* The iteration results of a branch add tokens to its context budget
RecordIteration(branch, tokens) ==
    [branch EXCEPT !.context_window_used = @ + tokens,
                   !.iteration_count = @ + 1]

\* ------------------------------------------------- branch manager: inputs
MaxBranches == 2
MaxIterations == 2
SmallContextWindow == 10

BranchIds == { "branch" \o ToString(i) : i \in 1..MaxBranches }

\* The token counts an iteration adds: the test's 110000 is 102400 + 7600
TokenSteps == { 1, 7600, 102399, 102400 }

BranchConfigs ==
    { BranchConfig(w, DefaultSplitThreshold) :
        w \in { SmallContextWindow, DefaultMaxContextWindow } }

\* ------------------------------------------------ branch manager: actions
\* create_branch followed by LoopState.add_branch
CreateBranch ==
    /\ entry = "branch_manager"
    /\ \E id \in BranchIds \ DOMAIN state.branches :
        /\ state' = AddBranch(state, id, Branch(PENDING, 0, 0))
        /\ ret' = Some([op |-> "create_branch", branch |-> id])
    /\ UNCHANGED << entry, pc, summary, error, overseerVars, validateVars,
                    nliVars, args, generatorVars >>

\* update_status(branch, status)
ApplyUpdateStatus ==
    /\ entry = "branch_manager"
    /\ \E id \in DOMAIN state.branches, status \in BranchStatuses :
        /\ state' = [state EXCEPT !.branches[id] = UpdateStatus(@, status)]
        /\ ret' = Some([op |-> "update_status", branch |-> id])
    /\ UNCHANGED << entry, pc, summary, error, overseerVars, validateVars,
                    nliVars, args, generatorVars >>

\* prune_branch(branch, reason)
ApplyPruneBranch ==
    /\ entry = "branch_manager"
    /\ \E id \in DOMAIN state.branches :
        /\ state' = PruneBranch(state, id)
        /\ ret' = Some([op |-> "prune_branch", branch |-> id])
    /\ UNCHANGED << entry, pc, summary, error, overseerVars, validateVars,
                    nliVars, args, generatorVars >>

\* One iteration of a running branch adds its results to the branch
Iterate ==
    /\ entry = "branch_manager"
    /\ \E id \in DOMAIN state.branches, tokens \in TokenSteps :
        /\ state.branches[id].status = RUNNING
        /\ state.branches[id].iteration_count < MaxIterations
        /\ state.branches[id].context_window_used + tokens
               <= args.max_context_window
        /\ state' = [state EXCEPT
                        !.branches[id] = RecordIteration(@, tokens)]
        /\ ret' = Some([op |-> "iterate", branch |-> id])
    /\ UNCHANGED << entry, pc, summary, error, overseerVars, validateVars,
                    nliVars, args, generatorVars >>

\* should_split(branch)
ApplyShouldSplit ==
    /\ entry = "branch_manager"
    /\ \E id \in DOMAIN state.branches :
        ret' = Some([op |-> "should_split", branch |-> id,
                     result |-> ShouldSplit(state.branches[id], args)])
    /\ UNCHANGED << entry, pc, summary, error, overseerVars, validateVars,
                    nliVars, args, state, generatorVars >>

\* ------------------------ hypothesis generator (hypothesis/generator.py)
\* A model response is a sequence of lexemes: the JSON punctuation, an object
\* key with its colon, a scalar JSON value, or prose that is no JSON.  White
\* space is not drawn, and no string drawn holds a bracket or a brace.
Lexeme(kind, key, val) == [kind |-> kind, key |-> key, val |-> val]

LBracket == Lexeme("[", "", JNull)
RBracket == Lexeme("]", "", JNull)
LBrace == Lexeme("{", "", JNull)
RBrace == Lexeme("}", "", JNull)
Comma == Lexeme(",", "", JNull)
Prose == Lexeme("prose", "", JNull)
Key(k) == Lexeme("key", k, JNull)
Scalar(v) == Lexeme("scalar", "", v)

\* A parsed JSON list (s holds its items) and a parsed JSON object (s holds
\* its << key, value >> members in order)
JList(items) == [t |-> "list", s |-> items, n |-> 0]
JDict(members) == [t |-> "dict", s |-> members, n |-> 0]

\* The outcome of parsing one JSON value: the value and the position after it
Failed == [ok |-> FALSE, value |-> JNull, next |-> 0]
Parsed(v, next) == [ok |-> TRUE, value |-> v, next |-> next]

\* json.loads: the JSON grammar over the lexemes
RECURSIVE ParseValue(_, _)
RECURSIVE ParseElements(_, _, _)
RECURSIVE ParseMembers(_, _, _)
ParseValue(ls, i) ==
    IF i > Len(ls) THEN Failed
    ELSE IF ls[i].kind = "scalar" THEN Parsed(ls[i].val, i + 1)
    ELSE IF ls[i].kind = "[" THEN
        IF i + 1 <= Len(ls) /\ ls[i + 1].kind = "]"
        THEN Parsed(JList(<< >>), i + 2)
        ELSE ParseElements(ls, i + 1, << >>)
    ELSE IF ls[i].kind = "{" THEN
        IF i + 1 <= Len(ls) /\ ls[i + 1].kind = "}"
        THEN Parsed(JDict(<< >>), i + 2)
        ELSE ParseMembers(ls, i + 1, << >>)
    ELSE Failed

\* The elements of an array from position i on, up to its "]"
ParseElements(ls, i, acc) ==
    LET v == ParseValue(ls, i) IN
    IF ~ v.ok \/ v.next > Len(ls) THEN Failed
    ELSE IF ls[v.next].kind = "]"
        THEN Parsed(JList(Append(acc, v.value)), v.next + 1)
    ELSE IF ls[v.next].kind = ","
        THEN ParseElements(ls, v.next + 1, Append(acc, v.value))
    ELSE Failed

\* The members of an object from position i on, up to its "}"
ParseMembers(ls, i, acc) ==
    IF i > Len(ls) \/ ls[i].kind # "key" THEN Failed
    ELSE LET v == ParseValue(ls, i + 1) IN
         IF ~ v.ok \/ v.next > Len(ls) THEN Failed
         ELSE LET members == Append(acc, << ls[i].key, v.value >>) IN
              IF ls[v.next].kind = "}"
                  THEN Parsed(JDict(members), v.next + 1)
              ELSE IF ls[v.next].kind = ","
                  THEN ParseMembers(ls, v.next + 1, members)
              ELSE Failed

\* json.loads(json_str): Some(value), or None for a JSONDecodeError
JsonLoads(ls) ==
    LET v == ParseValue(ls, 1) IN
    IF v.ok /\ v.next = Len(ls) + 1 THEN Some(v.value) ELSE None

\* response.find(c) and response.rfind(c) as positions from 1, 0 if absent
Find(ls, kind) ==
    IF \E i \in DOMAIN ls : ls[i].kind = kind
    THEN CHOOSE i \in DOMAIN ls :
             /\ ls[i].kind = kind
             /\ \A j \in 1..(i - 1) : ls[j].kind # kind
    ELSE 0

RFind(ls, kind) ==
    IF \E i \in DOMAIN ls : ls[i].kind = kind
    THEN CHOOSE i \in DOMAIN ls :
             /\ ls[i].kind = kind
             /\ \A j \in (i + 1)..Len(ls) : ls[j].kind # kind
    ELSE 0

\* item.get(key, default) of a parsed object: the last member with the key
RECURSIVE GetFrom(_, _, _, _)
GetFrom(members, n, key, default) ==
    IF n = 0 THEN default
    ELSE IF members[n][1] = key THEN members[n][2]
    ELSE GetFrom(members, n - 1, key, default)

Get(item, key, default) == GetFrom(item.s, Len(item.s), key, default)

\* bool(value)
Truthy(v) ==
    IF v.t \in {"str", "list", "dict"} THEN Len(v.s) > 0
    ELSE IF v.t \in {"int", "float"} THEN v.n # 0
    ELSE FALSE

\* str.lower() over the letters drawn here
LowerChar(c) == IF c = "A" THEN "a" ELSE IF c = "B" THEN "b" ELSE c

Lower(s) == [i \in DOMAIN s |-> LowerChar(s[i])]

\* sub in s
Contains(s, sub) ==
    \E i \in 1..(Len(s) - Len(sub) + 1) :
        SubSeq(s, i, i + Len(sub) - 1) = sub

\* paper_id_map is the sequence of its << title, paper_id >> items, in
\* insertion order.  Lines 174-177: the first stored title that holds the
\* title or is held by it, compared in lower case
RECURSIVE FuzzyMatch(_, _, _)
FuzzyMatch(title, paper_id_map, n) ==
    IF n > Len(paper_id_map) THEN << >>
    ELSE IF \/ Contains(Lower(paper_id_map[n][1]), Lower(title))
            \/ Contains(Lower(title), Lower(paper_id_map[n][1]))
        THEN << paper_id_map[n][2] >>
    ELSE FuzzyMatch(title, paper_id_map, n + 1)

\* Lines 170-177: the paper ids one supporting title adds
IdsOfTitle(title, paper_id_map) ==
    IF \E n \in DOMAIN paper_id_map : paper_id_map[n][1] = title
    THEN LET n == CHOOSE n \in DOMAIN paper_id_map :
                      paper_id_map[n][1] = title
         IN << paper_id_map[n][2] >>
    ELSE FuzzyMatch(title, paper_id_map, 1)

\* The titles `for title in supporting_titles` visits: the items of a list,
\* the characters of a str
TitlesOf(v) ==
    IF v.t = "str" THEN [i \in DOMAIN v.s |-> JStr(<< v.s[i] >>)]
    ELSE v.s

\* Lines 167-177: the loop over the supporting titles ends in a TypeError
\* (a value that is not iterable, an unhashable title) or an AttributeError
\* (a title without lower())
SupportingRaises(v, paper_id_map) ==
    \/ v.t \notin {"str", "list"}
    \/ \E n \in DOMAIN TitlesOf(v) :
        \/ TitlesOf(v)[n].t \in {"list", "dict"}
        \/ TitlesOf(v)[n].t # "str" /\ paper_id_map # << >>

\* Lines 167-177: supporting_ids
SupportingIds(v, paper_id_map) ==
    Concat([n \in DOMAIN TitlesOf(v) |->
               IF TitlesOf(v)[n].t = "str"
               THEN IdsOfTitle(TitlesOf(v)[n].s, paper_id_map)
               ELSE << >>])

\* Line 179: float(value) raises a TypeError or a ValueError
FloatRaises(v) ==
    \/ v.t \in {"null", "list", "dict"}
    \/ v.t = "str" /\ ~ IsNumberStr(v.s)

\* Line 179: float(value) in hundredths
FloatOf(v) ==
    IF v.t = "float" THEN v.n
    ELSE IF v.t = "int" THEN 100 * v.n
    ELSE ParseFloat(v.s)

\* Line 180: max(0.0, min(1.0, confidence))
ClampConfidence(confidence) == Max(0, Min(100, confidence))

\* ResearchHypothesis.  Its id is a fresh uuid4 and its timestamp the current
\* time; neither is read again by the generator.
ResearchHypothesis(hyp_text, supporting_paper_ids, confidence, branch_id) ==
    [text |-> hyp_text, supporting_paper_ids |-> supporting_paper_ids,
     confidence |-> confidence, generated_from_branch |-> branch_id]

\* Lines 156-194: the loop over the parsed items.  An exception inside it is
\* caught at lines 196-199, and the hypotheses built so far are returned.
RECURSIVE ParseItems(_, _, _, _, _)
ParseItems(data, i, hypotheses, paper_id_map, branch_id) ==
    IF i > Len(data) THEN hypotheses
    ELSE IF data[i].t # "dict"
        THEN ParseItems(data, i + 1, hypotheses, paper_id_map, branch_id)
    ELSE IF ~ Truthy(Get(data[i], "text", JStr(<< >>)))
        THEN ParseItems(data, i + 1, hypotheses, paper_id_map, branch_id)
    ELSE IF SupportingRaises(Get(data[i], "supporting_papers", JList(<< >>)),
                             paper_id_map)
        THEN hypotheses
    ELSE IF FloatRaises(Get(data[i], "confidence", JFloat(50)))
        THEN hypotheses
    ELSE ParseItems(data, i + 1,
             Append(hypotheses,
                 ResearchHypothesis(
                     Get(data[i], "text", JStr(<< >>)),
                     SupportingIds(Get(data[i], "supporting_papers",
                                       JList(<< >>)), paper_id_map),
                     ClampConfidence(FloatOf(Get(data[i], "confidence",
                                                 JFloat(50)))),
                     branch_id)),
             paper_id_map, branch_id)

\* _parse_response (lines 138-201)
ParseResponse(response, paper_id_map, branch_id) ==
    LET json_start == Find(response, "[")
        json_end == RFind(response, "]")
    IN  IF json_start = 0 \/ json_end < json_start THEN << >>
        ELSE LET data == JsonLoads(SubSeq(response, json_start, json_end))
             IN  IF data = None THEN << >>
                 ELSE ParseItems(data[1].s, 1, << >>, paper_id_map,
                                 branch_id)

\* A ValidatedSummary as generate reads it
ValidatedSummary(paper_id, paper_title) ==
    [paper_id |-> paper_id, paper_title |-> paper_title]

\* Lines 105-112: paper_id_map[s.paper_title] = s.paper_id for each summary;
\* a title met again keeps its place and takes the later paper_id
RECURSIVE PaperIdMap(_)
PaperIdMap(summaries) ==
    IF summaries = << >> THEN << >>
    ELSE LET s == summaries[Len(summaries)]
             before == PaperIdMap(SubSeq(summaries, 1, Len(summaries) - 1))
         IN  IF \E n \in DOMAIN before : before[n][1] = s.paper_title
             THEN [n \in DOMAIN before |->
                      IF before[n][1] = s.paper_title
                      THEN << s.paper_title, s.paper_id >>
                      ELSE before[n]]
             ELSE Append(before, << s.paper_title, s.paper_id >>)

\* generate (lines 75-136).  outcome is what self.llm.complete did: None when
\* it raised, Some(response) when it returned.
Generate(summaries, branch_id, outcome) ==
    IF summaries = << >> THEN << >>
    ELSE IF outcome = None THEN << >>
    ELSE ParseResponse(outcome[1], PaperIdMap(summaries), branch_id)

\* Faulty variant: a batch's hypotheses replace those gathered before
Extend_Replace(gathered, hypotheses) == hypotheses

\* Line 232: all_hypotheses.extend(hypotheses)
Extend(gathered, hypotheses) == gathered \o hypotheses

\* refine_hypothesis (lines 238-297): the refined hypothesis, or the original
\* one when the model call or the parsing fails
RefineHypothesis(hypothesis, outcome) ==
    LET response == outcome[1]
        json_start == Find(response, "{")
        json_end == RFind(response, "}")
        data == JsonLoads(SubSeq(response, json_start, json_end))
    IN  IF outcome = None THEN hypothesis
        ELSE IF json_start = 0 \/ json_end < json_start THEN hypothesis
        ELSE IF data = None THEN hypothesis
        ELSE IF FloatRaises(Get(data[1], "confidence",
                                JFloat(hypothesis.confidence)))
            THEN hypothesis
        ELSE ResearchHypothesis(
                 Get(data[1], "text", hypothesis.text),
                 hypothesis.supporting_paper_ids,
                 FloatOf(Get(data[1], "confidence",
                             JFloat(hypothesis.confidence))),
                 hypothesis.generated_from_branch)

\* -------------------------------------------- hypothesis generator: inputs
MaxBatchSummaries == 3
MaxBatchSize == 2

\* The lexemes of a scalar or of a list of scalars
RECURSIVE JoinComma(_)
JoinComma(parts) ==
    IF parts = << >> THEN << >>
    ELSE IF Len(parts) = 1 THEN parts[1]
    ELSE parts[1] \o << Comma >> \o JoinComma(Tail(parts))

ValueLexemes(v) ==
    IF v.t = "list"
    THEN << LBracket >>
           \o JoinComma([n \in DOMAIN v.s |-> << Scalar(v.s[n]) >>])
           \o << RBracket >>
    ELSE << Scalar(v) >>

MemberLexemes(key, v) ==
    IF v.t = "missing" THEN << >> ELSE << << Key(key) >> \o ValueLexemes(v) >>

\* The lexemes of one hypothesis object; a missing field is left out
ObjectLexemes(text_value, supporting_papers, confidence) ==
    << LBrace >>
      \o JoinComma(MemberLexemes("text", text_value)
                     \o MemberLexemes("supporting_papers", supporting_papers)
                     \o MemberLexemes("confidence", confidence))
      \o << RBrace >>

ArrayLexemes(items) == << LBracket >> \o JoinComma(items) \o << RBracket >>

ItemTexts == { JMissing, JStr(<< >>), JStr(<< "h" >>) }

ItemSupports ==
    { JMissing, JList(<< >>), JList(<< JStr(<< "A", "b" >>) >>),
      JList(<< JStr(<< "a" >>) >>), JList(<< JStr(<< "a", "a" >>) >>),
      JList(<< JInt(5) >>), JNull, JStr(<< "A", "b" >>) }

ItemConfidences ==
    { JMissing, JFloat(85), JFloat(0 - 50), JFloat(150), JInt(2),
      JStr(<< "0", ".", "9" >>), JStr(<< "a" >>), JNull }

\* Items that are no object: a number and an empty list
NonDictItems == { << Scalar(JInt(1)) >>, << LBracket, RBracket >> }

AllItems ==
    { ObjectLexemes(t, s, c) :
        t \in ItemTexts, s \in ItemSupports, c \in ItemConfidences }
    \cup NonDictItems

\* The hypothesis object of the test (test_research_loop.py:452-454)
GoodItem ==
    ObjectLexemes(JStr(<< "h" >>), JList(<< JStr(<< "A", "b" >>) >>),
                  JFloat(80))

FewItems ==
    { GoodItem,
      ObjectLexemes(JStr(<< "h" >>), JMissing, JFloat(150)),
      ObjectLexemes(JMissing, JMissing, JFloat(85)),
      ObjectLexemes(JStr(<< "h" >>), JNull, JFloat(85)),
      ObjectLexemes(JStr(<< "h" >>), JMissing, JStr(<< "a" >>)),
      << Scalar(JInt(1)) >> }

Arrays ==
    { ArrayLexemes(<< >>) }
    \cup { ArrayLexemes(<< a >>) : a \in AllItems }
    \cup { ArrayLexemes(<< a, b >>) : a \in FewItems, b \in FewItems }

\* Responses that hold no well-formed array, or hold it in the wrong place
BrokenResponses ==
    { << >>, << Prose >>, << LBracket >>, << RBracket >>,
      << RBracket, LBracket >>,
      << LBracket >> \o GoodItem,
      << LBracket >> \o GoodItem \o << Comma, RBracket >>,
      ArrayLexemes(<< GoodItem >>) \o << Prose >>
          \o ArrayLexemes(<< GoodItem >>),
      GoodItem,
      << LBracket, Prose, RBracket >> }

Responses ==
    Arrays
    \cup { << Prose >> \o a \o << Prose >> : a \in Arrays }
    \cup BrokenResponses

PaperIdMaps ==
    { << >>, << << << "A", "b" >>, "p1" >>, << << "b" >>, "p2" >> >> }

ParseResponseArgs ==
    [response : Responses, paper_id_map : PaperIdMaps, branch_id : {"b1"}]

\* What self.llm.complete may do in one call of generate: raise, or return
\* one of a few responses
FewResponses ==
    { ArrayLexemes(<< GoodItem >>),
      << Prose >> \o ArrayLexemes(<< GoodItem,
              ObjectLexemes(JStr(<< "h" >>), JMissing, JFloat(150)) >>),
      ArrayLexemes(<< GoodItem,
              ObjectLexemes(JStr(<< "h" >>), JMissing, JNull), GoodItem >>),
      << Prose >>,
      << LBracket >> \o GoodItem }

LLMOutcomes == { None } \cup { Some(r) : r \in FewResponses }

AllSummaries ==
    << ValidatedSummary("p1", << "A", "b" >>),
       ValidatedSummary("p2", << "b" >>),
       ValidatedSummary("p3", << "A", "b" >>) >>

GenerateArgs ==
    [summaries : { SubSeq(AllSummaries, 1, n) : n \in 0..MaxBatchSummaries },
     branch_id : {"b1"},
     batch_size : 1..MaxBatchSize]

\* The hypotheses refine_hypothesis is given
Hypotheses ==
    { ResearchHypothesis(JStr(<< "h" >>), << "p1" >>, c, "b1") :
        c \in { 0, 80, 100 } }

\* What self.llm.complete may do in refine_hypothesis
RefineOutcomes ==
    { None }
    \cup { Some(ObjectLexemes(t, JMissing, c)) :
             t \in ItemTexts, c \in ItemConfidences }
    \cup { Some(<< Prose >> \o ObjectLexemes(t, JMissing, c) \o << Prose >>) :
             t \in ItemTexts, c \in ItemConfidences }
    \cup { Some(r) : r \in BrokenResponses }

\* ------------------------------------------- hypothesis generator: actions
\* The record of one self.llm.complete call of generate and what generate
\* returned after it
CompleteCall(batch, outcome, hypotheses) ==
    [op |-> "complete", ok |-> outcome # None, batch |-> batch,
     outcome |-> outcome, result |-> hypotheses]

\* A _parse_response(response, paper_id_map, branch_id) call
ApplyParseResponse ==
    /\ entry = "parse_response"
    /\ pc = "start"
    /\ ret' = Some(ParseResponse(args.response, args.paper_id_map,
                                 args.branch_id))
    /\ pc' = "returned"
    /\ UNCHANGED << entry, summary, error, overseerVars, validateVars,
                    nliVars, args, state, generatorVars >>

\* A generate(summaries, branch_id) call without summaries: no model call
GenerateNothing ==
    /\ entry = "generate"
    /\ pc = "start"
    /\ args.summaries = << >>
    /\ ret' = Some(Generate(args.summaries, args.branch_id, None))
    /\ pc' = "returned"
    /\ UNCHANGED << entry, summary, error, overseerVars, validateVars,
                    nliVars, args, state, generatorVars >>

\* A generate(summaries, branch_id) call with its one model call
ApplyGenerate ==
    /\ entry = "generate"
    /\ pc = "start"
    /\ args.summaries # << >>
    /\ \E outcome \in { None } \cup { Some(r) : r \in Responses } :
        /\ calls' = Append(calls,
               CompleteCall(args.summaries, outcome,
                   Generate(args.summaries, args.branch_id, outcome)))
        /\ ret' = Some(Generate(args.summaries, args.branch_id, outcome))
    /\ pc' = "returned"
    /\ UNCHANGED << entry, summary, error, overseerLocals, validateVars,
                    nliVars, args, state, generatorVars >>

\* generate_from_batch, lines 227-232: one pass of the loop over the batches,
\* with the generate call it awaits
GenerateBatch ==
    /\ entry = "generate_from_batch"
    /\ pc = "start"
    /\ batch_i < Len(args.summaries)
    /\ \E outcome \in LLMOutcomes :
        LET batch == SubSeq(args.summaries, batch_i + 1,
                            Min(batch_i + args.batch_size,
                                Len(args.summaries)))
            hypotheses == Generate(batch, args.branch_id, outcome)
        IN  /\ calls' = Append(calls,
                               CompleteCall(batch, outcome, hypotheses))
            /\ all_hypotheses' = Extend(all_hypotheses, hypotheses)
    /\ batch_i' = batch_i + args.batch_size
    /\ UNCHANGED << entry, pc, summary, ret, error, overseerLocals,
                    validateVars, nliVars, args, state >>

\* generate_from_batch, line 234: return all_hypotheses
ReturnBatches ==
    /\ entry = "generate_from_batch"
    /\ pc = "start"
    /\ batch_i >= Len(args.summaries)
    /\ ret' = Some(all_hypotheses)
    /\ pc' = "returned"
    /\ UNCHANGED << entry, summary, error, overseerVars, validateVars,
                    nliVars, args, state, generatorVars >>

\* A refine_hypothesis(hypothesis, feedback, summaries) call with its one
\* model call
ApplyRefineHypothesis ==
    /\ entry = "refine_hypothesis"
    /\ pc = "start"
    /\ \E outcome \in RefineOutcomes :
        /\ calls' = Append(calls,
               CompleteCall(<< >>, outcome,
                   << RefineHypothesis(args.hypothesis, outcome) >>))
        /\ ret' = Some(RefineHypothesis(args.hypothesis, outcome))
    /\ pc' = "returned"
    /\ UNCHANGED << entry, summary, error, overseerLocals, validateVars,
                    nliVars, args, state, generatorVars >>

\* --------------------------- HaluGate groundedness (halugate/http_client.py)
\* HallucinationSpan (halugate/models.py)
HallucinationSpan(span_text, start, end, confidence, severity) ==
    [text |-> span_text, start |-> start, end |-> end,
     confidence |-> confidence, severity |-> severity]

\* sum(len(s.text) for s in result.spans)
RECURSIVE HallucinatedChars(_)
HallucinatedChars(ss) ==
    IF ss = << >> THEN 0
    ELSE Len(Head(ss).text) + HallucinatedChars(Tail(ss))

\* compute_groundedness(result, answer) of HTTPHaluGate (lines 86-99) and of
\* LocalHaluGate (local.py:137-142), which is the same code: the value n/d as
\* << n, d >>, where n is negative when the value is
ComputeGroundedness(ss, answer) ==
    IF ss = << >> THEN << 1, 1 >>
    ELSE IF answer = << >> THEN << 1, 1 >>
    ELSE << Len(answer) - HallucinatedChars(ss), Len(answer) >>

\* The spans of an answer: parts of the answer, which may overlap, with the
\* severity of a NEUTRAL or CONTRADICTION span, and one text that is longer
\* than the answer
SpansOf(answer) ==
    UNION { { HallucinationSpan(SubSeq(answer, b + 1, e), b, e, 90, sev) :
                e \in b..Len(answer), sev \in {2, 4} } :
            b \in 0..Len(answer) }
    \cup { HallucinationSpan(answer \o Str(1), 0, Len(answer) + 1, 90, 2) }

GroundednessArgs ==
    UNION { [spans : SeqsUpTo(SpansOf(answer), MaxSpans),
             answer : { answer }] : answer \in Summaries }

\* A compute_groundedness(result, answer) call, as validate_summary makes it
\* (pipeline/validation.py:39)
ApplyComputeGroundedness ==
    /\ entry = "compute_groundedness"
    /\ pc = "start"
    /\ ret' = Some(ComputeGroundedness(args.spans, args.answer))
    /\ pc' = "returned"
    /\ UNCHANGED << entry, summary, error, overseerVars, validateVars,
                    nliVars, args, state, generatorVars >>

\* ------------------------------------------------------------ initial states
IdleGenerator ==
    /\ batch_i = 0
    /\ all_hypotheses = << >>

IdleOverseer ==
    /\ max_retries = 0
    /\ guidance = None
    /\ attempt = 0
    /\ current_guidance = None
    /\ last_result = None
    /\ calls = << >>

IdleNli ==
    /\ text = Str(0)
    /\ chunk_idx = 1
    /\ best_label = "NEUTRAL"
    /\ best_confidence = 0
    /\ nli_calls = << >>

IdleValidate ==
    /\ validator = DefaultValidator
    /\ context = ContextNone
    /\ predictions = << >>
    /\ context_chunks = << >>
    /\ item_idx = 1
    /\ span = RawSpan(Str(0), 0, 0, 0)
    /\ spans = << >>

\* Overseer(validator, max_retries) followed by a call of
\* summarise_with_validation(base, data, context, question, guidance).
InitOverseer ==
    /\ entry = "overseer"
    /\ pc = "start"
    /\ max_retries \in (0 - 1)..MaxRetriesBound
    /\ guidance \in CallerGuidances
    /\ attempt = 0
    /\ current_guidance = None
    /\ last_result = None
    /\ summary = Str(0)
    /\ calls = << >>
    /\ ret = None
    /\ error = ""
    /\ args = None
    /\ state = None
    /\ IdleGenerator
    /\ IdleValidate
    /\ IdleNli

\* LettuceDetectValidator(...) followed by validate(summary, context).
InitValidate ==
    /\ entry = "validate"
    /\ pc = "start"
    /\ summary \in ValidateSummaries
    /\ validator \in Validators
    /\ context \in Contexts
    /\ predictions = << >>
    /\ context_chunks = << >>
    /\ item_idx = 1
    /\ span = RawSpan(Str(0), 0, 0, 0)
    /\ spans = << >>
    /\ ret = None
    /\ error = ""
    /\ args = None
    /\ state = None
    /\ IdleGenerator
    /\ IdleOverseer
    /\ IdleNli

\* _infer_nli(text, context_chunks) on its own
InitInferNli ==
    /\ entry = "infer_nli"
    /\ pc = "infer"
    /\ text \in NliTexts
    /\ context_chunks \in SeqsUpTo(NliChunks, MaxChunks)
    /\ chunk_idx = 1
    /\ best_label = "NEUTRAL"
    /\ best_confidence = 0
    /\ nli_calls = << >>
    /\ summary = Str(0)
    /\ validator = DefaultValidator
    /\ context = ContextNone
    /\ predictions = << >>
    /\ item_idx = 1
    /\ span = RawSpan(Str(0), 0, 0, 0)
    /\ spans = << >>
    /\ ret = None
    /\ error = ""
    /\ args = None
    /\ state = None
    /\ IdleGenerator
    /\ IdleOverseer

\* _grounded_percent(summary, spans) on its own
InitGrounded ==
    /\ entry = "grounded"
    /\ pc = "start"
    /\ summary \in Summaries
    /\ spans \in SeqsUpTo(GroundedSpans, MaxSpans)
    /\ validator = DefaultValidator
    /\ context = ContextNone
    /\ predictions = << >>
    /\ context_chunks = << >>
    /\ item_idx = 1
    /\ span = RawSpan(Str(0), 0, 0, 0)
    /\ ret = None
    /\ error = ""
    /\ args = None
    /\ state = None
    /\ IdleGenerator
    /\ IdleOverseer
    /\ IdleNli

\* _chunk_contexts(contexts, chunk_size) on its own
InitChunk ==
    /\ entry = "chunk"
    /\ pc = "start"
    /\ \E call \in ChunkArgs :
          /\ context = call[1]
          /\ validator = Thresholds(DefaultGroundedMin, DefaultSpanConf,
                                    DefaultContradictionConf, call[2])
    /\ summary = Str(0)
    /\ predictions = << >>
    /\ context_chunks = << >>
    /\ item_idx = 1
    /\ span = RawSpan(Str(0), 0, 0, 0)
    /\ spans = << >>
    /\ ret = None
    /\ error = ""
    /\ args = None
    /\ state = None
    /\ IdleGenerator
    /\ IdleOverseer
    /\ IdleNli

\* _coerce_span(item) on its own
InitCoerce ==
    /\ entry = "coerce"
    /\ pc = "start"
    /\ \E item \in CoerceItems : predictions = << item >>
    /\ summary = Str(0)
    /\ validator = DefaultValidator
    /\ context = ContextNone
    /\ context_chunks = << >>
    /\ item_idx = 1
    /\ span = RawSpan(Str(0), 0, 0, 0)
    /\ spans = << >>
    /\ ret = None
    /\ error = ""
    /\ args = None
    /\ state = None
    /\ IdleGenerator
    /\ IdleOverseer
    /\ IdleNli

\* ContextEstimator() followed by one call of will_exceed_context or of
\* remaining_capacity
InitEstimator ==
    /\ entry \in {"will_exceed_context", "remaining_capacity"}
    /\ pc = "start"
    /\ args \in EstimatorArgs
    /\ state = None
    /\ IdleGenerator
    /\ entry = "remaining_capacity" => args.additional_tokens = 0
    /\ summary = Str(0)
    /\ ret = None
    /\ error = ""
    /\ IdleOverseer
    /\ IdleValidate
    /\ IdleNli

\* BranchSplitter() followed by split(branch, strategy, num_splits)
InitSplit ==
    /\ entry = "split"
    /\ pc = "start"
    /\ args \in SplitArgs
    /\ state = None
    /\ IdleGenerator
    /\ summary = Str(0)
    /\ ret = None
    /\ error = ""
    /\ IdleOverseer
    /\ IdleValidate
    /\ IdleNli

\* BranchSplitter() followed by suggest_strategy(branch)
InitSuggest ==
    /\ entry = "suggest_strategy"
    /\ pc = "start"
    /\ \E papers \in Branches : args = [papers |-> papers]
    /\ state = None
    /\ IdleGenerator
    /\ summary = Str(0)
    /\ ret = None
    /\ error = ""
    /\ IdleOverseer
    /\ IdleValidate
    /\ IdleNli

\* BranchManager(config) and an empty LoopState
InitBranchManager ==
    /\ entry = "branch_manager"
    /\ pc = "ready"
    /\ args \in BranchConfigs
    /\ state = LoopState(<< >>)
    /\ IdleGenerator
    /\ summary = Str(0)
    /\ ret = None
    /\ error = ""
    /\ IdleOverseer
    /\ IdleValidate
    /\ IdleNli

\* HypothesisGenerator(llm) followed by one call of _parse_response, of
\* generate, of generate_from_batch or of refine_hypothesis
InitParseResponse ==
    /\ entry = "parse_response"
    /\ pc = "start"
    /\ args \in ParseResponseArgs
    /\ state = None
    /\ IdleGenerator
    /\ summary = Str(0)
    /\ ret = None
    /\ error = ""
    /\ IdleOverseer
    /\ IdleValidate
    /\ IdleNli

InitGenerate ==
    /\ entry \in {"generate", "generate_from_batch"}
    /\ pc = "start"
    /\ args \in GenerateArgs
    /\ entry = "generate" => args.batch_size = 1
    /\ state = None
    /\ IdleGenerator
    /\ summary = Str(0)
    /\ ret = None
    /\ error = ""
    /\ IdleOverseer
    /\ IdleValidate
    /\ IdleNli

InitRefine ==
    /\ entry = "refine_hypothesis"
    /\ pc = "start"
    /\ \E h \in Hypotheses : args = [hypothesis |-> h]
    /\ state = None
    /\ IdleGenerator
    /\ summary = Str(0)
    /\ ret = None
    /\ error = ""
    /\ IdleOverseer
    /\ IdleValidate
    /\ IdleNli

\* A HaluGate client followed by one compute_groundedness call
InitGroundedness ==
    /\ entry = "compute_groundedness"
    /\ pc = "start"
    /\ args \in GroundednessArgs
    /\ state = None
    /\ IdleGenerator
    /\ summary = Str(0)
    /\ ret = None
    /\ error = ""
    /\ IdleOverseer
    /\ IdleValidate
    /\ IdleNli

Init ==
    \/ InitOverseer
    \/ InitValidate
    \/ InitInferNli
    \/ InitGrounded
    \/ InitChunk
    \/ InitCoerce
    \/ InitEstimator
    \/ InitSplit
    \/ InitSuggest
    \/ InitBranchManager
    \/ InitParseResponse
    \/ InitGenerate
    \/ InitRefine
    \/ InitGroundedness

NextOverseer ==
    \/ Start
    \/ Summarise
    \/ SummariseFails
    \/ Validate
    \/ ValidateFails

NextValidate ==
    \/ DetectSpans
    \/ DetectSpansFails
    \/ CoerceItem
    \/ CoerceFails
    \/ CoerceItemRaises
    \/ Infer
    \/ InferFails
    \/ AppendSpan
    \/ Finish

NextInferNli ==
    \/ Infer
    \/ InferFails
    \/ ReturnInfer

NextGrounded == ApplyGroundedPercent

NextChunk == ApplyChunkContexts

NextCoerce ==
    \/ ApplyCoerceSpan
    \/ CoerceSpanRaises

NextEstimator ==
    \/ ApplyWillExceedContext
    \/ ApplyRemainingCapacity

NextSplit ==
    \/ ApplySplit
    \/ ApplySplitAgain

NextSuggest == ApplySuggestStrategy

NextBranchManager ==
    \/ CreateBranch
    \/ ApplyUpdateStatus
    \/ ApplyPruneBranch
    \/ Iterate
    \/ ApplyShouldSplit

NextParseResponse == ApplyParseResponse

NextGenerate ==
    \/ GenerateNothing
    \/ ApplyGenerate
    \/ GenerateBatch
    \/ ReturnBatches

NextRefine == ApplyRefineHypothesis

Next ==
    \/ NextOverseer
    \/ NextValidate
    \/ ReturnInfer
    \/ NextGrounded
    \/ NextChunk
    \/ NextCoerce
    \/ NextEstimator
    \/ NextSplit
    \/ NextSuggest
    \/ NextBranchManager
    \/ NextParseResponse
    \/ NextGenerate
    \/ NextRefine
    \/ ApplyComputeGroundedness

\* Every operation, from every entry point.
Spec == Init /\ [][Next]_vars

\* One entry point each.
SpecOverseer == InitOverseer /\ [][NextOverseer]_vars
SpecValidate == InitValidate /\ [][NextValidate]_vars
SpecInferNli == InitInferNli /\ [][NextInferNli]_vars
SpecGrounded == InitGrounded /\ [][NextGrounded]_vars
SpecChunk == InitChunk /\ [][NextChunk]_vars
SpecCoerce == InitCoerce /\ [][NextCoerce]_vars
SpecEstimator == InitEstimator /\ [][NextEstimator]_vars
SpecSplit == InitSplit /\ [][NextSplit]_vars
SpecSuggest == InitSuggest /\ [][NextSuggest]_vars
SpecBranchManager == InitBranchManager /\ [][NextBranchManager]_vars
SpecGroundedness == InitGroundedness /\ [][ApplyComputeGroundedness]_vars
SpecGenerate == InitGenerate /\ [][NextGenerate]_vars

\* The hypothesis generator from each of its entry points
InitGenerator == InitParseResponse \/ InitGenerate \/ InitRefine
NextGenerator == NextParseResponse \/ NextGenerate \/ NextRefine
SpecGenerator == InitGenerator /\ [][NextGenerator]_vars

\* ------------------------------------------------------------ Overseer claims
OverseerDone == entry = "overseer" /\ pc \in {"returned", "raised"}

\* No backend call failed and every validation result so far is blocked.
AllAttemptsBlocked ==
    \A i \in DOMAIN calls :
        /\ calls[i].ok
        /\ calls[i].op = "validate" => calls[i].result[1].blocked

\* C1: for max_retries >= 0 the call performs at most max_retries+1
\* generate+validate cycles, each generate followed by exactly one validate of
\* the summary just generated, and it returns right after the first validate
\* whose result is not blocked, with no further generate or validate call.
C1_BoundedCycles ==
    (entry = "overseer" /\ max_retries >= 0) =>
        /\ NumCalls("summarise") <= max_retries + 1
        /\ NumCalls("validate") <= NumCalls("summarise")
        /\ \A i \in DOMAIN calls :
              calls[i].op = IF i % 2 = 1 THEN "summarise" ELSE "validate"
        /\ \A i \in DOMAIN calls :
              calls[i].op = "validate" =>
                  /\ calls[i - 1].ok
                  /\ calls[i].summary = calls[i - 1].summary
        /\ \A i \in DOMAIN calls :
              (calls[i].op = "validate" /\ calls[i].ok
                 /\ ~ calls[i].result[1].blocked) =>
                  /\ i = Len(calls)
                  /\ pc = "returned"
                  /\ ret = Some(<< calls[i].summary, calls[i].result[1] >>)
        /\ pc = "returned" => calls[Len(calls)].op = "validate"

\* C1 witness: with max_retries = 2 the second attempt is not blocked and the
\* call has returned after two cycles.
C1_Witness ==
    /\ entry = "overseer" /\ pc = "returned" /\ max_retries = 2
    /\ Len(calls) = 4
    /\ calls[2].result[1].blocked
    /\ ~ calls[4].result[1].blocked

\* C2 as stated (no condition on max_retries): if every attempt is blocked the
\* call does not raise, returns after exactly max_retries+1 attempts, and
\* returns the last summary with the result of validating it, blocked = true.
C2_AllBlockedAsStated ==
    (OverseerDone /\ AllAttemptsBlocked) =>
        /\ pc = "returned"
        /\ NumCalls("validate") = max_retries + 1
        /\ NumCalls("summarise") = max_retries + 1
        /\ ret = Some(<< calls[Len(calls) - 1].summary,
                         calls[Len(calls)].result[1] >>)
        /\ calls[Len(calls)].summary = calls[Len(calls) - 1].summary
        /\ ret[1][2].blocked

\* C2 amended: the same, for max_retries >= 0.
C2_AllBlockedReturnsLast ==
    max_retries >= 0 => C2_AllBlockedAsStated

\* C2 witness: three blocked attempts with max_retries = 2, then a return.
C2_Witness ==
    /\ entry = "overseer" /\ pc = "returned" /\ max_retries = 2
    /\ Len(calls) = 6
    /\ AllAttemptsBlocked

\* C3: attempt 0 calls the summarizer with the caller's guidance, every later
\* attempt with the fixed strict guidance; the strict guidance never reverts.
C3_GuidanceEscalation ==
    entry = "overseer" =>
        /\ \A i \in DOMAIN calls :
              calls[i].op = "summarise" =>
                  calls[i].guidance =
                      IF i = 1 THEN guidance ELSE strict_guidance
        /\ \A i, j \in DOMAIN calls :
              (i < j /\ calls[i].op = "summarise" /\ calls[j].op = "summarise"
                 /\ calls[i].guidance = strict_guidance) =>
                  calls[j].guidance = strict_guidance
        /\ pc \in {"summarise", "validate"} =>
              current_guidance =
                  IF attempt = 0 THEN guidance ELSE strict_guidance

\* C3 witness: a caller guidance was given and the third attempt has been
\* generated.
C3_Witness ==
    /\ entry = "overseer"
    /\ guidance # None
    /\ NumCalls("summarise") = 3
    /\ calls[5].guidance = strict_guidance

\* ------------------------------------------------------ validation claims
AtInferReturn ==
    /\ entry \in {"validate", "infer_nli"}
    /\ \/ pc = "infer" /\ chunk_idx > Len(context_chunks)
       \/ entry = "infer_nli" /\ pc = "returned"

\* C4: a failed summarizer, validate, span-detection or NLI call ends the
\* enclosing call with that error at once: the failed call is the last call
\* issued, nothing is returned, and no call is issued twice. (The complete
\* calls of the hypothesis generator are not among these: generate catches
\* their failure.)
C4_FailuresNotRetried ==
    /\ \A i \in DOMAIN calls :
         (calls[i].op # "complete" /\ ~ calls[i].ok) =>
             /\ i = Len(calls)
             /\ pc = "raised"
             /\ ret = None
             /\ error = (IF calls[i].op = "summarise" THEN "SummarizerError"
                         ELSE IF calls[i].op = "validate" THEN "ValidatorError"
                         ELSE "DetectError")
    /\ \A i \in DOMAIN nli_calls :
         ~ nli_calls[i].ok =>
             /\ i = Len(nli_calls)
             /\ pc = "raised"
             /\ ret = None
             /\ error = "NLIError"
    /\ entry = "validate" => NumCalls("detect_spans") <= 1
    /\ Len(nli_calls) <= Len(context_chunks)
    /\ error \in {"SummarizerError", "ValidatorError", "DetectError"} =>
         ~ calls[Len(calls)].ok
    /\ error = "NLIError" => ~ nli_calls[Len(nli_calls)].ok

\* C4 witness: the validate call of the second attempt failed and the
\* Overseer call ended with that error.
C4_Witness ==
    /\ entry = "overseer" /\ pc = "raised" /\ error = "ValidatorError"
    /\ Len(calls) = 4
    /\ max_retries = 2

\* C4 witness (validator): an NLI call on the second chunk failed.
C4_WitnessNli ==
    /\ entry = "validate" /\ pc = "raised" /\ error = "NLIError"
    /\ Len(nli_calls) = 2

InUnit(x) == x[2] > 0 /\ 0 <= x[1] /\ x[1] <= x[2]

\* C5: _grounded_percent returns a value in [0,1] for every summary and span
\* list, including negative offsets, offsets beyond the summary, end <= start
\* and overlapping spans.
C5_GroundedInUnitInterval ==
    /\ (entry = "grounded" /\ pc = "returned") => InUnit(ret[1])
    /\ (entry = "validate" /\ pc = "returned") => InUnit(ret[1].grounded_pct)

\* C5 witness: a non-ENTAILMENT span starting before 0 and ending beyond the
\* summary.
C5_Witness ==
    /\ entry = "grounded" /\ pc = "returned"
    /\ Len(summary) > 0
    /\ \E i \in DOMAIN spans :
         /\ spans[i].label # "ENTAILMENT"
         /\ spans[i].start < 0
         /\ spans[i].end > Len(summary)
    /\ ret[1] = Frac(0, 1)

\* The characters of the summary covered by some non-ENTAILMENT span.
CoveredChars(summ, ss) ==
    { c \in 0..(Len(summ) - 1) :
        \E i \in DOMAIN ss :
            /\ ss[i].label # "ENTAILMENT"
            /\ ss[i].start <= c
            /\ c < ss[i].end }

OffsetsInside(summ, ss) ==
    \A i \in DOMAIN ss :
        0 <= ss[i].start /\ ss[i].start < ss[i].end /\ ss[i].end <= Len(summ)

\* C6: for a non-empty summary of length L and spans with
\* 0 <= start < end <= L, grounded_pct = 1 - |U|/L, U the union of the
\* intervals of the non-ENTAILMENT spans (a character covered twice counts
\* once).
C6_UnionCountedOnce ==
    (entry = "grounded" /\ pc = "returned" /\ Len(summary) > 0
       /\ OffsetsInside(summary, spans)) =>
        ret[1] = Frac(Len(summary) - Cardinality(CoveredChars(summary, spans)),
                      Len(summary))

\* C6 witness: two partly overlapping non-ENTAILMENT spans, the later one
\* listed first, that leave a character of the summary uncovered.
C6_Witness ==
    /\ entry = "grounded" /\ pc = "returned"
    /\ Len(summary) > 0
    /\ OffsetsInside(summary, spans)
    /\ Len(spans) = 2
    /\ spans[1].label # "ENTAILMENT" /\ spans[2].label # "ENTAILMENT"
    /\ spans[2].start < spans[1].start
    /\ spans[1].start < spans[2].end
    /\ spans[2].end < spans[1].end
    /\ FracLT(Frac(0, 1), ret[1])

InsertAt(ss, pos, x) ==
    SubSeq(ss, 1, pos) \o << x >> \o SubSeq(ss, pos + 1, Len(ss))

EntailmentSpans == { sp \in GroundedSpans : sp.label = "ENTAILMENT" }

\* C7: adding an ENTAILMENT span, with any offsets and text, at any position
\* of the span list never decreases grounded_pct.
C7_EntailmentIgnored ==
    (entry = "grounded" /\ pc = "returned") =>
        \A e \in EntailmentSpans : \A pos \in 0..Len(spans) :
            FracLE(ret[1], GroundedPercent(summary, InsertAt(spans, pos, e)))

\* C7 witness: a result below 1, so that a wide ENTAILMENT span could lower it.
C7_Witness ==
    /\ entry = "grounded" /\ pc = "returned"
    /\ Len(spans) >= 1
    /\ FracLT(Frac(0, 1), ret[1])
    /\ FracLT(ret[1], Frac(1, 1))

\* C8: blocked is true iff grounded_pct < grounded_min, or some CONTRADICTION
\* span has confidence >= contradiction_conf, or some non-ENTAILMENT span has
\* hallucination_score >= span_conf; under the default thresholds a
\* CONTRADICTION span of confidence >= 0.90 blocks.
C8_BlockedRule ==
    (entry = "validate" /\ pc = "returned") =>
        LET r == ret[1] IN
        /\ r.blocked <=>
             \/ FracLTHundredths(r.grounded_pct, validator.grounded_min)
             \/ \E i \in DOMAIN r.spans :
                  /\ r.spans[i].label = "CONTRADICTION"
                  /\ r.spans[i].confidence >= validator.contradiction_conf
             \/ \E i \in DOMAIN r.spans :
                  /\ r.spans[i].label # "ENTAILMENT"
                  /\ r.spans[i].hallucination_score >= validator.span_conf
        /\ (validator = DefaultValidator
              /\ \E i \in DOMAIN r.spans :
                   /\ r.spans[i].label = "CONTRADICTION"
                   /\ r.spans[i].confidence >= 90) => r.blocked

\* C8 witness: under the default thresholds only the contradiction rule fires.
C8_Witness ==
    /\ entry = "validate" /\ pc = "returned"
    /\ validator = DefaultValidator
    /\ ret[1].grounded_pct = Frac(1, 1)
    /\ Len(ret[1].spans) = 1
    /\ ret[1].spans[1].label = "CONTRADICTION"
    /\ ret[1].spans[1].confidence >= 90
    /\ ret[1].spans[1].hallucination_score < 90
    /\ ret[1].blocked

\* C9: needs_fact_check is true exactly when the span detector returned at
\* least one prediction; with none, grounded_pct = 1.0, needs_fact_check is
\* false and, under the default thresholds, blocked is false.
C9_NeedsFactCheck ==
    (entry = "validate" /\ pc = "returned") =>
        LET r == ret[1] IN
        /\ r.needs_fact_check <=> Len(predictions) > 0
        /\ Len(predictions) = 0 =>
             /\ r.grounded_pct = Frac(1, 1)
             /\ ~ r.needs_fact_check
             /\ (/\ validator.grounded_min = DefaultGroundedMin
                 /\ validator.span_conf = DefaultSpanConf
                 /\ validator.contradiction_conf = DefaultContradictionConf)
                  => ~ r.blocked

\* C9 witness: no prediction for a non-empty summary, default thresholds.
C9_Witness ==
    /\ entry = "validate" /\ pc = "returned"
    /\ validator = DefaultValidator
    /\ Len(summary) > 0
    /\ predictions = << >>
    /\ ~ ret[1].blocked

\* C9 witness: a single ENTAILMENT span that does not block still asks for a
\* fact check.
C9_WitnessSpans ==
    /\ entry = "validate" /\ pc = "returned"
    /\ Len(predictions) = 1
    /\ ret[1].needs_fact_check
    /\ ~ ret[1].blocked

\* The answers with confidence above 0.0, and the one _infer_nli must return.
Positive(log) == { i \in DOMAIN log : log[i].confidence > 0 }

Winner(log) ==
    CHOOSE i \in Positive(log) :
        \A j \in Positive(log) :
            \/ log[j].confidence < log[i].confidence
            \/ log[j].confidence = log[i].confidence /\ i <= j

\* C10: _infer_nli calls the NLI backend once per chunk, in chunk order, with
\* premise = chunk and hypothesis = span text, and returns the (label,
\* confidence) of the earliest chunk of strictly highest confidence, or
\* (NEUTRAL, 0.0) when no chunk has confidence above 0.0.
C10_InferNliKeepsFirstMax ==
    /\ entry \in {"validate", "infer_nli"} =>
         \A i \in DOMAIN nli_calls :
             /\ i <= Len(context_chunks)
             /\ nli_calls[i].premise = context_chunks[i]
             /\ nli_calls[i].hypothesis = text
    /\ AtInferReturn =>
         /\ Len(nli_calls) = Len(context_chunks)
         /\ << best_label, best_confidence >> =
              IF Positive(nli_calls) = {} THEN << "NEUTRAL", 0 >>
              ELSE << nli_calls[Winner(nli_calls)].label,
                      nli_calls[Winner(nli_calls)].confidence >>
    /\ (entry = "infer_nli" /\ pc = "returned") =>
         ret = Some(<< best_label, best_confidence >>)
    /\ (entry = "validate" /\ pc = "next_item" /\ Len(spans) > 0) =>
         /\ spans[Len(spans)].label = best_label
         /\ spans[Len(spans)].confidence = best_confidence

\* C10 witness: three chunks, the first two tied at the highest confidence
\* with different labels; the first one is returned.
C10_Witness ==
    /\ entry = "infer_nli" /\ pc = "returned"
    /\ Len(context_chunks) = 3
    /\ context_chunks[1] # context_chunks[2]
    /\ nli_calls[1].confidence = 90 /\ nli_calls[2].confidence = 90
    /\ nli_calls[3].confidence = 50
    /\ nli_calls[1].label = "CONTRADICTION"
    /\ nli_calls[2].label = "ENTAILMENT"
    /\ ret = Some(<< "CONTRADICTION", 90 >>)

\* ------------------------------------------------- NLI aggregation order
\* The answers of the log, evaluated in the order perm.
Permuted(log, perm) == [i \in DOMAIN log |-> log[perm[i]]]

\* What validate derives from the (label, confidence) of the current span:
\* label, confidence, severity, and the grounded_pct and blocked flag of the
\* spans built so far together with this one.
OutcomeOf(lc) ==
    LET ss == Append(spans,
                     SpanDetection(span.text, span.start, span.end,
                                   span.hallucination_score, lc[1], lc[2],
                                   SeverityFromLabel(lc[1])))
        grounded_pct == GroundedPercent(summary, ss)
    IN  << lc[1], lc[2], SeverityFromLabel(lc[1]), grounded_pct,
           ShouldBlock(grounded_pct, ss, validator.grounded_min,
                       validator.span_conf, validator.contradiction_conf) >>

\* The chunks whose answer has the highest confidence, when it is above 0.0.
TopChunks(log) ==
    { i \in Positive(log) :
        \A j \in DOMAIN log : log[j].confidence <= log[i].confidence }

UniqueTopLabel(log) ==
    \A i, j \in TopChunks(log) : log[i].label = log[j].label

\* C11 as stated: evaluating the chunks of a span in any permutation yields
\* the same (label, confidence), hence the same severity, grounded_pct and
\* blocked flag.
C11_OrderIndependentAsStated ==
    AtInferReturn =>
        \A perm \in Permutations(DOMAIN nli_calls) :
            OutcomeOf(InferNli(Permuted(nli_calls, perm)))
                = OutcomeOf(<< best_label, best_confidence >>)

\* C11 amended: the aggregated confidence is the same for every permutation
\* of the chunks; the label, and with it the severity, grounded_pct and
\* blocked flag, is the same for every permutation when all chunks of the
\* highest confidence above 0.0 carry one label.
C11_OrderIndependentUnlessTied ==
    AtInferReturn =>
        /\ << best_label, best_confidence >> = InferNli(nli_calls)
        /\ \A perm \in Permutations(DOMAIN nli_calls) :
              InferNli(Permuted(nli_calls, perm))[2] = best_confidence
        /\ UniqueTopLabel(nli_calls) =>
              \A perm \in Permutations(DOMAIN nli_calls) :
                  OutcomeOf(InferNli(Permuted(nli_calls, perm)))
                      = OutcomeOf(<< best_label, best_confidence >>)

\* C11 witness: validate has the answers of two chunks for a span, the second
\* of higher confidence; both orders return its label.
C11_Witness ==
    /\ entry = "validate" /\ AtInferReturn
    /\ Len(nli_calls) = 2
    /\ nli_calls[1].confidence = 50 /\ nli_calls[1].label = "ENTAILMENT"
    /\ nli_calls[2].confidence = 90 /\ nli_calls[2].label = "CONTRADICTION"
    /\ best_label = "CONTRADICTION" /\ best_confidence = 90

\* ------------------------------------------------------------- chunk list
\* C12: for every span prediction processed by validate() the NLI backend is
\* called at least once, whatever the context and the chunk_size: the chunk
\* list handed to _infer_nli is never empty.
C12_NliCalledForEverySpan ==
    entry = "validate" =>
        /\ pc \in {"next_item", "infer", "returned"} =>
              context_chunks # << >>
        /\ (pc = "infer" /\ chunk_idx > Len(context_chunks)) =>
              Len(nli_calls) >= 1

\* ---------------------------------------------------------------- chunking
\* The number of chunks one context gives with a positive chunk_size.
PieceCount(ctx, chunk_size) ==
    IF Len(ctx) <= chunk_size THEN 1
    ELSE (Len(ctx) + chunk_size - 1) \div chunk_size

\* The number of chunks of the first k contexts.
RECURSIVE PiecesBefore(_, _, _)
PiecesBefore(contexts, k, chunk_size) ==
    IF k = 0 THEN 0
    ELSE PiecesBefore(contexts, k - 1, chunk_size)
         + PieceCount(contexts[k], chunk_size)

\* C13: with chunk_size > 0, _chunk_contexts keeps each context of length
\* <= chunk_size whole and replaces each longer one by consecutive
\* non-overlapping slices of exactly chunk_size characters (only the last may
\* be shorter), in order; the slices of a context concatenate to it and no
\* chunk is longer than chunk_size.  With chunk_size <= 0 the contexts are
\* returned unchanged.  (An empty list of contexts with chunk_size > 0 gives
\* one empty chunk.)
C13_ChunkContexts ==
    (entry = "chunk" /\ pc = "returned") =>
        LET contexts == NormalizeContexts(context)
            chunk_size == validator.chunk_size
            chunks == ret[1]
            first(k) == PiecesBefore(contexts, k - 1, chunk_size)
            count(k) == PieceCount(contexts[k], chunk_size)
        IN  IF chunk_size <= 0 THEN chunks = contexts
            ELSE IF contexts = << >> THEN chunks = << Str(0) >>
            ELSE
              /\ Len(chunks) = PiecesBefore(contexts, Len(contexts), chunk_size)
              /\ \A i \in DOMAIN chunks : Len(chunks[i]) <= chunk_size
              /\ \A k \in DOMAIN contexts :
                    /\ Len(contexts[k]) <= chunk_size =>
                          chunks[first(k) + 1] = contexts[k]
                    /\ \A j \in 1..(count(k) - 1) :
                          Len(chunks[first(k) + j]) = chunk_size
                    /\ Len(chunks[first(k) + count(k)]) >= 1
                          \/ contexts[k] = << >>
                    /\ Concat(SubSeq(chunks, first(k) + 1,
                                      first(k) + count(k))) = contexts[k]

\* C13 witness: 5000 characters with chunk_size 2000 give chunks of lengths
\* 2000, 2000 and 1000.
C13_Witness ==
    /\ entry = "chunk" /\ pc = "returned"
    /\ validator.chunk_size = 2000
    /\ context.items = << Str(5000) >>
    /\ [i \in DOMAIN ret[1] |-> Len(ret[1][i])] = << 2000, 2000, 1000 >>

\* C13 witness: a long and a short context of distinct characters.
C13_WitnessOrder ==
    /\ entry = "chunk" /\ pc = "returned"
    /\ validator.chunk_size = 2
    /\ context.items = << << "a", "b", "c", "d", "e" >>, << "a", "b" >> >>
    /\ ret[1] = << << "a", "b" >>, << "c", "d" >>, << "e" >>, << "a", "b" >> >>

\* ----------------------------------------------------------------- coercion
\* A field kept when present with its own type, replaced by its default
\* otherwise.
TextOrDefault(v) == IF v.t = "str" THEN v.s ELSE Str(0)
OffsetOrDefault(v) == IF v.t = "int" THEN v.n ELSE 0
ScoreOrDefault(v) ==
    IF v.t = "float" THEN v.n ELSE IF v.t = "int" THEN 100 * v.n ELSE 0

\* C14: coercing a record-shaped prediction never fails, and each of its
\* fields text, start, end, hallucination_score that is missing or of the
\* wrong type is replaced by its default ("", 0, 0, 0.0); a prediction that
\* is not record-shaped fails the call and nothing is returned.
C14_CoerceDefaults ==
    /\ (entry = "coerce" /\ pc # "start") =>
         IF predictions[1].shape = "dict"
           THEN /\ pc = "returned"
                /\ ret = Some(RawSpan(
                       TextOrDefault(predictions[1].text),
                       OffsetOrDefault(predictions[1].start),
                       OffsetOrDefault(predictions[1].end),
                       ScoreOrDefault(predictions[1].hallucination_score)))
           ELSE pc = "raised" /\ ret = None
    /\ (entry = "validate" /\ pc = "raised"
          /\ error \notin {"DetectError", "NLIError"}) =>
         /\ predictions[item_idx].shape # "dict"
         /\ ret = None

\* C14, the part the code keeps: a field that is missing, or present with
\* its own type, gives the default or its value, and a prediction that is not
\* record-shaped fails the call.
C14_CoerceWellTyped ==
    (entry = "coerce" /\ pc # "start") =>
        LET item == predictions[1]
            own(v, ty) == v.t \in ({"missing"} \cup ty)
        IN  /\ item.shape # "dict" =>
                  pc = "raised" /\ error = "RuntimeError" /\ ret = None
            /\ (item.shape = "dict" /\ own(item.start, {"int"})
                  /\ own(item.end, {"int"})) => pc = "returned"
            /\ pc = "returned" =>
                  /\ own(item.text, {"str"}) =>
                        ret[1].text = TextOrDefault(item.text)
                  /\ own(item.start, {"int"}) =>
                        ret[1].start = OffsetOrDefault(item.start)
                  /\ own(item.end, {"int"}) =>
                        ret[1].end = OffsetOrDefault(item.end)
                  /\ own(item.hallucination_score, {"int", "float"}) =>
                        ret[1].hallucination_score =
                            ScoreOrDefault(item.hallucination_score)

\* -------------------------------------------------------- context estimator
\* C15: will_exceed_context(current, additional, max_context, threshold) is
\* true if and only if current + additional > max_context * threshold, for all
\* non-negative token counts and thresholds in [0,1], also when the product is
\* not an integer (the product is in units of 1/200, so is the total here);
\* 100000 + 30000 against 128000 at 0.8 is true.
C15_WillExceedIffAbove ==
    (entry = "will_exceed_context" /\ pc = "returned") =>
        /\ ret[1] <=>
              200 * (args.current_tokens + args.additional_tokens)
                  > FloatProduct(args.max_context, args.threshold)
        /\ (args.current_tokens = 100000 /\ args.additional_tokens = 30000
              /\ args.max_context = 128000 /\ args.threshold = 80) =>
              ret[1] /\ Limit(args.max_context, args.threshold) = 102400

\* C15 witness: a total of 4 tokens against 7 * 0.5 = 3.5 exceeds, the limit
\* being 3.
C15_Witness ==
    /\ entry = "will_exceed_context" /\ pc = "returned"
    /\ args.max_context = 7 /\ args.threshold = 50
    /\ args.current_tokens + args.additional_tokens = 4
    /\ ret = Some(TRUE)

\* C15 witness: the call of test_context_management.
C15_WitnessScenario ==
    /\ entry = "will_exceed_context" /\ pc = "returned"
    /\ args.current_tokens = 100000 /\ args.additional_tokens = 30000
    /\ args.max_context = 128000 /\ args.threshold = 80
    /\ ret = Some(TRUE)

\* C16 as stated: remaining_capacity is >= 0, and will_exceed_context is true
\* if and only if additional > remaining_capacity, for all non-negative
\* current, additional, max_context and every threshold in [0,1].
C16_MirrorAsStated ==
    /\ (entry = "remaining_capacity" /\ pc = "returned") => ret[1] >= 0
    /\ (entry = "will_exceed_context" /\ pc = "returned") =>
         (ret[1] <=>
             args.additional_tokens
                 > RemainingCapacity(args.current_tokens, args.max_context,
                                     args.threshold))

\* C16 amended: remaining_capacity is max(0, limit - current) >= 0, and
\* will_exceed_context is true if and only if additional > remaining_capacity
\* or current is already above the limit (then the remaining capacity is 0
\* and will_exceed_context is true for every additional, 0 included).
C16_MirrorUnlessOverLimit ==
    /\ (entry = "remaining_capacity" /\ pc = "returned") =>
         /\ ret[1] >= 0
         /\ ret[1] = RemainingCapacity(args.current_tokens, args.max_context,
                                       args.threshold)
         /\ ret[1] > 0 =>
               args.current_tokens + ret[1]
                   = Limit(args.max_context, args.threshold)
         /\ ret[1] = 0 =>
               args.current_tokens >= Limit(args.max_context, args.threshold)
    /\ (entry = "will_exceed_context" /\ pc = "returned") =>
         LET remaining == RemainingCapacity(args.current_tokens,
                                            args.max_context, args.threshold)
             over == args.current_tokens
                         > Limit(args.max_context, args.threshold)
         IN  /\ ret[1] <=> (args.additional_tokens > remaining \/ over)
             /\ over => remaining = 0 /\ ret[1]

\* C16 witness: the remaining_capacity call of test_context_management
\* returns 52400.
C16_Witness ==
    /\ entry = "remaining_capacity" /\ pc = "returned"
    /\ args.current_tokens = 50000 /\ args.max_context = 128000
    /\ args.threshold = 80
    /\ ret = Some(52400)

\* C16 witness: the window is already over the limit and nothing is added.
C16_WitnessOverLimit ==
    /\ entry = "will_exceed_context" /\ pc = "returned"
    /\ args.current_tokens = 10 /\ args.additional_tokens = 0
    /\ args.max_context = 7 /\ args.threshold = 50
    /\ ret = Some(TRUE)

\* ---------------------------------------------------------- branch splitter
SplitReturned == entry = "split" /\ pc \in {"returned", "returned_again"}

\* Scenario C: BY_FIELD, num_splits = 2, four papers with the field lists
\* [CS, NLP], [CS, CV], [NLP], [CV].
ScenarioC ==
    /\ SplitReturned
    /\ args.strategy = "by_field"
    /\ args.num_splits = Some(2)
    /\ [n \in DOMAIN args.papers |-> args.papers[n].fields_of_study]
         = << << CS, NLP >>, << CS, CV >>, << NLP >>, << CV >> >>

\* C17 as stated: in scenario C split returns exactly 2 groups, both
\* non-empty, labelled with the two most frequent primary fields.
C17_TwoGroupsAsStated ==
    ScenarioC =>
        /\ Len(ret[1].groups) = 2
        /\ \A g \in DOMAIN ret[1].groups : ret[1].groups[g] # << >>
        /\ Len(ret[1].group_labels) = 2
        /\ ret[1].group_labels[1] = CS
        /\ ret[1].group_labels[2] \in { NLP, CV }

\* C17 amended: in scenario C split returns 3 non-empty groups: the two most
\* frequent primary fields, CS with p1 and p2 and NLP with p3, and a group
\* "Other" with the rest, p4.  In general BY_FIELD returns at most
\* num_splits + 1 groups, the extra one being "Other".
C17_TopTwoAndOther ==
    /\ ScenarioC =>
         /\ ret[1].groups = << << "p1", "p2" >>, << "p3" >>, << "p4" >> >>
         /\ ret[1].group_labels = << CS, NLP, Other >>
    /\ (SplitReturned /\ args.strategy \in {"by_field", "by_topic"}) =>
         LET num_primary ==
                 Cardinality({ PrimaryField(args.papers[n]) :
                                 n \in DOMAIN args.papers })
             num_splits == NumSplits(args.num_splits)
         IN  /\ Len(ret[1].groups)
                   = IF num_primary > num_splits THEN num_splits + 1
                     ELSE num_primary
             /\ num_primary > num_splits =>
                   ret[1].group_labels[num_splits + 1] = Other
             /\ \A g \in DOMAIN ret[1].groups : ret[1].groups[g] # << >>

\* C17 witness: scenario C has returned three groups.
C17_Witness == ScenarioC /\ Len(ret[1].groups) = 3

\* C18: for every strategy and every num_splits >= 1 the groups returned by
\* split form a partition of the accumulated paper ids: every accumulated
\* paper id is in exactly one group, and no group holds another id.
C18_GroupsPartitionPapers ==
    SplitReturned =>
        LET ids == Concat(ret[1].groups) IN
        /\ \A n \in DOMAIN args.papers :
              Cardinality({ k \in DOMAIN ids :
                              ids[k] = args.papers[n].paper_id }) = 1
        /\ \A k \in DOMAIN ids :
              \E n \in DOMAIN args.papers : ids[k] = args.papers[n].paper_id

\* C18 witness: a RANDOM split of four papers in three groups, the papers
\* shuffled.
C18_Witness ==
    /\ SplitReturned
    /\ args.strategy = "random"
    /\ args.num_splits = Some(3)
    /\ ret[1].groups = << << "p2" >>, << "p4" >>, << "p1", "p3" >> >>

\* C18 witness: a BY_TIME split of four papers of three years in three groups.
C18_WitnessTime ==
    /\ SplitReturned
    /\ args.strategy = "by_time"
    /\ Len(args.papers) = 4
    /\ Len(ret[1].groups) = 3
    /\ Len(ret[1].groups[2]) = 2

\* C19: split is deterministic: a second call with the same branch contents,
\* strategy and num_splits returns the same groups, labels and queries, for
\* every strategy, RANDOM included.
C19_SplitDeterministic ==
    [][(entry = "split" /\ pc = "returned" /\ pc' = "returned_again") =>
          ret' = ret]_vars

\* C19, the part the code keeps: every strategy but RANDOM returns the same
\* result again, and RANDOM the same strategy, labels, queries and group
\* sizes.
C19_DeterministicUnlessRandom ==
    [][(entry = "split" /\ pc = "returned" /\ pc' = "returned_again") =>
          /\ args.strategy # "random" => ret' = ret
          /\ ret'[1].strategy = ret[1].strategy
          /\ ret'[1].group_labels = ret[1].group_labels
          /\ ret'[1].group_queries = ret[1].group_queries
          /\ [g \in DOMAIN ret'[1].groups |-> Len(ret'[1].groups[g])]
               = [g \in DOMAIN ret[1].groups |-> Len(ret[1].groups[g])]]_vars

\* The fields and the publication years the papers carry.
KnownFields(papers) ==
    UNION { { papers[n].fields_of_study[i] :
                i \in DOMAIN papers[n].fields_of_study } :
            n \in DOMAIN papers }

KnownYears(papers) ==
    { papers[n].year[1] : n \in { k \in DOMAIN papers : papers[k].year # None } }

YearSpan(papers) ==
    LET years == KnownYears(papers) IN
    IF years = {} THEN 0
    ELSE (CHOOSE y \in years : \A z \in years : z <= y)
         - (CHOOSE y \in years : \A z \in years : y <= z)

StatedStrategy(papers) ==
    IF Cardinality(KnownFields(papers)) >= 3 THEN "by_field"
    ELSE IF YearSpan(papers) >= 5 THEN "by_time"
    ELSE IF Len(papers) >= 4 THEN "by_citation_count"
    ELSE "random"

\* C20: suggest_strategy returns BY_FIELD if the accumulated papers have at
\* least 3 distinct fields; otherwise BY_TIME if the span between their
\* earliest and latest publication year is at least 5; otherwise
\* BY_CITATION_COUNT if there are at least 4 papers; otherwise RANDOM.
C20_SuggestStrategy ==
    (entry = "suggest_strategy" /\ pc = "returned") =>
        ret = Some(StatedStrategy(args.papers))

\* C20, the part the code keeps: the same, for branches whose papers all
\* carry a field list and a publication year.
C20_SuggestWithMetadata ==
    (entry = "suggest_strategy" /\ pc = "returned"
       /\ \A n \in DOMAIN args.papers :
             /\ args.papers[n].fields_of_study # << >>
             /\ args.papers[n].year # None) =>
        ret = Some(StatedStrategy(args.papers))


\* ------------------------------------------------------ branch manager claims
\* The last operation was should_split
ShouldSplitAnswered ==
    /\ entry = "branch_manager"
    /\ ret # None
    /\ ret[1].op = "should_split"

\* The branch the last operation was about
LastBranch == state.branches[ret[1].branch]

\* C21: should_split(branch) is true if and only if context_window_used is
\* at least 0.8 times max_context_window (4/5 of it), and false for every
\* value strictly below; it is false for an empty branch.
C21_ShouldSplitAtThreshold ==
    ShouldSplitAnswered =>
        /\ ret[1].result <=>
               5 * LastBranch.context_window_used
                   >= 4 * args.max_context_window
        /\ LastBranch.context_window_used = 0 => ~ ret[1].result

\* should_split answered true exactly at the threshold of the default window
C21_Witness ==
    /\ ShouldSplitAnswered
    /\ args.max_context_window = DefaultMaxContextWindow
    /\ LastBranch.context_window_used = 102400
    /\ ret[1].result

\* should_split answered true at the test's 110000 tokens
C21_WitnessTest ==
    /\ ShouldSplitAnswered
    /\ args.max_context_window = DefaultMaxContextWindow
    /\ LastBranch.context_window_used = 110000
    /\ ret[1].result

\* should_split answered false one token below the threshold
C21_WitnessBelow ==
    /\ ShouldSplitAnswered
    /\ LastBranch.context_window_used = 102399
    /\ ~ ret[1].result

\* C22: over any sequence of create_branch, update_status and prune_branch a
\* branch's status follows PENDING -> RUNNING -> {COMPLETED | PRUNED}: a new
\* branch is PENDING, a PRUNED branch never changes its status again, and
\* pruning changes only the status and never removes the branch from the
\* loop state's branches map.
C22_BranchLifecycle ==
    [][entry = "branch_manager" =>
        /\ \A b \in DOMAIN state.branches :
            /\ b \in DOMAIN state'.branches
            /\ state.branches[b].status = PRUNED =>
                   state'.branches[b].status = PRUNED
            /\ \/ state'.branches[b].status = state.branches[b].status
               \/ << state.branches[b].status, state'.branches[b].status >>
                      \in Transitions
        /\ \A b \in DOMAIN state'.branches \ DOMAIN state.branches :
            state'.branches[b].status = PENDING
        /\ ret'[1].op = "prune_branch" =>
               \A b \in DOMAIN state.branches :
                   state'.branches[b] =
                       [state.branches[b] EXCEPT
                           !.status = state'.branches[b].status]
      ]_vars

\* A pruned branch, still in the map, was just asked to take another status
C22_Witness ==
    /\ entry = "branch_manager"
    /\ ret # None
    /\ ret[1].op = "update_status"
    /\ LastBranch.status = PRUNED
    /\ \E b \in DOMAIN state.branches : state.branches[b].status = RUNNING


\* ------------------------------------------------ hypothesis generator claims
\* Some part of the response is a well-formed JSON array that holds an object
HoldsHypothesisArray(response) ==
    \E a \in DOMAIN response, b \in DOMAIN response :
        /\ a <= b
        /\ response[a].kind = "["
        /\ JsonLoads(SubSeq(response, a, b)) # None
        /\ \E n \in DOMAIN JsonLoads(SubSeq(response, a, b))[1].s :
               JsonLoads(SubSeq(response, a, b))[1].s[n].t = "dict"

\* The model call failed, or its output holds no array of hypothesis records
BadOutcome(outcome) ==
    outcome = None \/ ~ HoldsHypothesisArray(outcome[1])

\* C23: hypothesis generation never aborts on bad model output: when the
\* model call fails or its output holds no parseable JSON array of hypothesis
\* records, generate returns an empty list, and generate_from_batch still
\* processes every remaining batch and returns the hypotheses of the good
\* batches in batch order.
C23_BadBatchNeverAborts ==
    entry \in {"generate", "generate_from_batch"} =>
        /\ \A n \in DOMAIN calls :
               BadOutcome(calls[n].outcome) => calls[n].result = << >>
        /\ (entry = "generate" /\ pc = "returned" /\ calls # << >>) =>
               ret = Some(calls[1].result)
        /\ (entry = "generate_from_batch" /\ pc = "returned") =>
               /\ ret = Some(Concat([n \in DOMAIN calls |-> calls[n].result]))
               /\ Concat([n \in DOMAIN calls |-> calls[n].batch])
                      = args.summaries
               /\ \A n \in DOMAIN calls :
                      Len(calls[n].batch) \in 1..args.batch_size

\* Three batches, the middle one bad, the hypotheses of the other two returned
C23_Witness ==
    /\ entry = "generate_from_batch"
    /\ pc = "returned"
    /\ Len(calls) = 3
    /\ calls[1].result # << >>
    /\ BadOutcome(calls[2].outcome)
    /\ calls[3].result # << >>
    /\ ret = Some(calls[1].result \o calls[3].result)

\* generate returned the empty list after a failed model call
C23_WitnessFailedCall ==
    /\ entry = "generate"
    /\ pc = "returned"
    /\ calls # << >>
    /\ calls[1].outcome = None
    /\ ret = Some(<< >>)

\* The hypotheses the call returned
Returned ==
    IF entry = "refine_hypothesis" THEN << ret[1] >> ELSE ret[1]

\* C25: every ResearchHypothesis produced by generate, generate_from_batch or
\* refine_hypothesis has a confidence in [0,1], whatever confidence value the
\* model output carries.
C25_ConfidenceInRange ==
    (/\ entry \in {"parse_response", "generate", "generate_from_batch",
                   "refine_hypothesis"}
     /\ pc = "returned") =>
        \A n \in DOMAIN Returned :
            Returned[n].confidence \in 0..100

\* The hypotheses of _parse_response, generate and generate_from_batch have a
\* confidence in [0,1]
C25_ParsedConfidenceInRange ==
    (/\ entry \in {"parse_response", "generate", "generate_from_batch"}
     /\ pc = "returned") =>
        \A n \in DOMAIN Returned :
            Returned[n].confidence \in 0..100


\* ---------------------------------------------------------- HaluGate claims
\* C24: compute_groundedness(result, answer) returns a value between 0.0 and
\* 1.0 for every answer and every list of hallucination spans, including
\* overlapping spans and spans whose texts together are longer than the
\* answer.
C24_GroundednessInUnit ==
    (entry = "compute_groundedness" /\ pc = "returned") =>
        /\ 0 <= ret[1][1]
        /\ ret[1][1] <= ret[1][2]

\* The spans are parts of the answer, in order and without overlap
DisjointSpans ==
    /\ \A n \in DOMAIN args.spans :
        /\ args.spans[n].start <= args.spans[n].end
        /\ args.spans[n].end <= Len(args.answer)
    /\ \A n \in 1..(Len(args.spans) - 1) :
        args.spans[n].end <= args.spans[n + 1].start

\* The groundedness is within [0,1] when the spans do not overlap
C24_DisjointSpansInUnit ==
    (entry = "compute_groundedness" /\ pc = "returned" /\ DisjointSpans) =>
        /\ 0 <= ret[1][1]
        /\ ret[1][1] <= ret[1][2]


\* ------------------------------------------------------ splitter claims, II
TimeReturned == SplitReturned /\ args.strategy = "by_time"

\* The paper of the branch with the id
PaperOf(id) ==
    args.papers[CHOOSE n \in DOMAIN args.papers :
                    args.papers[n].paper_id = id]

\* The publication years of the papers of group g; a paper without a year
\* counts as year 0
GroupYears(g) ==
    { YearOf(PaperOf(ret[1].groups[g][k])) : k \in DOMAIN ret[1].groups[g] }

\* The number of papers of group g published in year y or before
SizeUpTo(g, y) ==
    Cardinality({ k \in DOMAIN ret[1].groups[g] :
                    YearOf(PaperOf(ret[1].groups[g][k])) <= y })

MinOf(S) == CHOOSE x \in S : \A y \in S : x <= y
MaxOf(S) == CHOOSE x \in S : \A y \in S : y <= x

\* The label of a non-empty group: its year, or its first and last year
LabelOfYears(years) ==
    IF Cardinality(years) = 1 THEN IntToStr(MinOf(years))
    ELSE IntToStr(MinOf(years)) \o << "-" >> \o IntToStr(MaxOf(years))

\* The groups follow ascending year and are closed greedily for `splits`
\* groups: at most `splits` groups; the years of an earlier group are smaller
\* than those of a later one; a group that is not the last has reached
\* floor(papers/splits); a group before the splits-th reaches that size only
\* with its last year; every paper is in a group; the labels name the years.
FollowsYears(splits) ==
    LET groups == ret[1].groups
        per_split == Len(args.papers) \div splits
    IN  /\ Len(groups) <= splits
        /\ Len(ret[1].group_labels) = Len(groups)
        /\ \A g \in DOMAIN groups, h \in DOMAIN groups :
               g < h => \A a \in GroupYears(g), b \in GroupYears(h) : a < b
        /\ \A g \in DOMAIN groups :
               /\ g < Len(groups) => Len(groups[g]) >= per_split
               /\ g < splits =>
                      \A y \in GroupYears(g) :
                          y < MaxOf(GroupYears(g)) =>
                              SizeUpTo(g, y) < per_split
               /\ groups[g] # << >> =>
                      ret[1].group_labels[g] = LabelOfYears(GroupYears(g))
        /\ \A n \in DOMAIN args.papers :
               \E g \in DOMAIN groups :
                   \E k \in DOMAIN groups[g] :
                       groups[g][k] = args.papers[n].paper_id

\* C26 as stated: split BY_TIME returns at most num_splits groups that follow
\* ascending publication year: the papers of one year are in one group, the
\* years of group i are smaller than those of group j for i < j, a group
\* other than the last is closed at the first year where its size reaches
\* floor(papers/num_splits), the last group holds all remaining papers, and
\* each label is the year or the first-last year range of its group.
C26_ByTimeAsStated ==
    TimeReturned => FollowsYears(NumSplits(args.num_splits))

\* The number of groups _split_by_time works for: num_splits, or the number
\* of distinct years when there are fewer years than that, and at least 1
AvailableSplits ==
    IF Cardinality(YearKeys(args.papers)) < NumSplits(args.num_splits)
    THEN Max(1, Cardinality(YearKeys(args.papers)))
    ELSE NumSplits(args.num_splits)

\* C26 amended: the same with k = min(num_splits, number of distinct years),
\* at least 1, in the place of num_splits: at most k groups, closed at
\* floor(papers/k).
C26_ByTimeWithAvailableYears ==
    TimeReturned => FollowsYears(AvailableSplits)

\* Four papers of two years split in three: one group with the range label
C26_Witness ==
    /\ TimeReturned
    /\ Len(args.papers) = 4
    /\ args.num_splits = Some(3)
    /\ Cardinality(YearKeys(args.papers)) = 2
    /\ Len(ret[1].groups) = 1
    /\ ret[1].group_labels = << LabelOfYears(GroupYears(1)) >>

\* Four papers of three years split in two groups, the second with two years
C26_WitnessTwoGroups ==
    /\ TimeReturned
    /\ Len(args.papers) = 4
    /\ args.num_splits = Some(2)
    /\ Cardinality(YearKeys(args.papers)) = 3
    /\ Len(ret[1].groups) = 2
    /\ Cardinality(GroupYears(2)) = 2


CitationReturned ==
    /\ SplitReturned
    /\ args.strategy = "by_citation_count"
    /\ Len(args.papers) >= 1

\* The citation counts of the papers of group g; a paper without a count
\* counts as 0
GroupCitations(g) ==
    { CitationsOf(PaperOf(ret[1].groups[g][k])) :
        k \in DOMAIN ret[1].groups[g] }

\* `number` blocks of the papers by descending citation count, each but the
\* last of `size` papers, the last with the rest, labelled by their place
CitationBlocks(number, size) ==
    LET groups == ret[1].groups IN
    /\ Len(groups) = number
    /\ Len(ret[1].group_labels) = number
    /\ \A g \in DOMAIN groups : g < number => Len(groups[g]) = size
    /\ \A n \in DOMAIN args.papers :
           \E g \in DOMAIN groups :
               \E k \in DOMAIN groups[g] :
                   groups[g][k] = args.papers[n].paper_id
    /\ Len(Concat(groups)) = Len(args.papers)
    /\ \A g \in DOMAIN groups, h \in DOMAIN groups :
           g < h => \A a \in GroupCitations(g), b \in GroupCitations(h) :
                        a >= b
    /\ \A g \in DOMAIN groups :
           ret[1].group_labels[g] =
               IF g = 1 THEN HighImpact
               ELSE IF g = number THEN Emerging
               ELSE MediumImpact \o IntToStr(g - 1)

\* C27 as stated: split BY_CITATION_COUNT on n >= 1 papers with num_splits = N
\* returns N contiguous blocks of the papers sorted by citation count
\* descending: each of the first N-1 groups has floor(n/N) papers, the last
\* group has all the rest, every paper of group i has a citation count >=
\* every paper of group i+1, and the labels are 'High Impact' for the first
\* group, 'Emerging' for the last and 'Medium Impact k' for the middle ones.
C27_CitationBlocksAsStated ==
    CitationReturned =>
        CitationBlocks(NumSplits(args.num_splits),
                       Len(args.papers) \div NumSplits(args.num_splits))

\* C27 amended: min(n, N) blocks, each but the last of max(1, floor(n/N))
\* papers: with fewer papers than N every paper is a group of its own.
C27_CitationBlocksOfPapers ==
    CitationReturned =>
        CitationBlocks(Min(Len(args.papers), NumSplits(args.num_splits)),
                       Max(1, Len(args.papers)
                                  \div NumSplits(args.num_splits)))

\* Two papers split in three: two groups of one paper
C27_Witness ==
    /\ CitationReturned
    /\ Len(args.papers) = 2
    /\ args.num_splits = Some(3)
    /\ Len(ret[1].groups) = 2
    /\ ret[1].group_labels = << HighImpact, Emerging >>

\* Four papers split in three: the last group takes two, the middle one is
\* 'Medium Impact 1'
C27_WitnessThreeBlocks ==
    /\ CitationReturned
    /\ Len(args.papers) = 4
    /\ args.num_splits = Some(3)
    /\ Len(ret[1].groups) = 3
    /\ Len(ret[1].groups[3]) = 2
    /\ ret[1].group_labels[2] = MediumImpact \o << "1" >>
    /\ Cardinality(GroupCitations(1) \cup GroupCitations(3)) > 1


\* split(branch, BY_FIELD, num_splits >= 2) has returned
FieldReturned ==
    /\ SplitReturned
    /\ args.strategy = "by_field"
    /\ NumSplits(args.num_splits) >= 2

TwoGroupsOrMore ==
    /\ Len(ret[1].groups) >= 2
    /\ \A g \in DOMAIN ret[1].groups : ret[1].groups[g] # << >>

\* C28: whenever suggest_strategy returns BY_FIELD for a branch,
\* split(branch, BY_FIELD, num_splits >= 2) returns at least 2 non-empty
\* groups.
C28_SuggestedFieldSplitHasTwoGroups ==
    FieldReturned /\ SuggestStrategy(args.papers) = "by_field"
        => TwoGroupsOrMore

\* The primary fields _split_by_field groups the papers by
PrimaryFields(papers) ==
    { IF papers[n].fields_of_study = << >> THEN General
      ELSE papers[n].fields_of_study[1] : n \in DOMAIN papers }

\* Two or more primary fields do give two or more non-empty groups
C28_TwoPrimaryFieldsGiveTwoGroups ==
    FieldReturned /\ Cardinality(PrimaryFields(args.papers)) >= 2
        => TwoGroupsOrMore


SameLengths ==
    /\ Len(ret[1].group_labels) = Len(ret[1].groups)
    /\ Len(ret[1].group_queries) = Len(ret[1].groups)

NoEmptyGroup == \A g \in DOMAIN ret[1].groups : ret[1].groups[g] # << >>

\* C29: every SplitResult returned by split(), for every strategy, every
\* num_splits >= 1 and every branch (a branch with no papers included), is
\* well formed: groups, group_labels and group_queries have the same length,
\* and no group is empty.
C29_SplitResultWellFormed ==
    SplitReturned /\ NumSplits(args.num_splits) >= 1
        => SameLengths /\ NoEmptyGroup

\* The three lists have the same length for every branch
C29_SameLengths == SplitReturned => SameLengths

\* No group is empty when the branch has a paper, or the strategy is not
\* BY_TIME
C29_NoEmptyGroupOfPapers ==
    SplitReturned /\ (args.papers # << >> \/ args.strategy # "by_time")
        => NoEmptyGroup


\* validate() has returned for a summary whose detected spans, one or more,
\* are all labelled ENTAILMENT
AllEntailment ==
    /\ entry = "validate"
    /\ pc = "returned"
    /\ Len(predictions) >= 1
    /\ \A i \in DOMAIN ret[1].spans : ret[1].spans[i].label = "ENTAILMENT"

\* C30: a summary whose detected spans are all labelled ENTAILMENT is never
\* blocked when grounded_min <= 1.0: validate() returns grounded_pct = 1.0 and
\* blocked = false whatever the hallucination_score and the NLI confidence of
\* the spans, needs_fact_check is still true and the ENTAILMENT spans are
\* still listed in result.spans.
C30_EntailedNeverBlocked ==
    (AllEntailment /\ validator.grounded_min <= 100) =>
        /\ ret[1].grounded_pct = Frac(1, 1)
        /\ ~ ret[1].blocked
        /\ ret[1].needs_fact_check
        /\ Len(ret[1].spans) = Len(predictions)

\* C30 witness: an ENTAILMENT span with a hallucination_score and a confidence
\* at the thresholds, over a part of the summary, with grounded_min = 1.0
C30_Witness ==
    /\ AllEntailment
    /\ validator.grounded_min = 100
    /\ \E i \in DOMAIN ret[1].spans :
           /\ ret[1].spans[i].hallucination_score >= validator.span_conf
           /\ ret[1].spans[i].confidence >= validator.contradiction_conf
           /\ ret[1].spans[i].end > ret[1].spans[i].start
    /\ ~ ret[1].blocked

\* A grounded_min above 1.0 blocks the same summary
C30_WitnessAboveOne ==
    /\ AllEntailment
    /\ validator.grounded_min > 100
    /\ ret[1].blocked

====
